---------------------------- MODULE Spec2Model ----------------------------
(***************************************************************************)
(* Model of the git-sync edge functions of the repository.                 *)
(*                                                                         *)
(* Four versions of the serve handler are present in the sources:          *)
(*   "hardcoded"  supabase/functions/git-sync/index.ts lines 1-242         *)
(*                (fixed MASTER_REPO, refs/heads/main, PATCH only)         *)
(*   "defaultA"   supabase/functions/git-sync/index.ts lines 244-528       *)
(*                (default branches, verifyRepositoryAccess, regex only)   *)
(*   "defaultB"   unnamed/part_001 (default branches, validateGitHubUrl)   *)
(*   "verify"     unnamed/part_002 (access verification only)              *)
(*                                                                         *)
(* Strings that the code parses (URLs) are sequences of one-character      *)
(* strings, so that the regular expressions and the URL parsing are        *)
(* computed, not assumed.  An invocation is a process; every await of the  *)
(* handler is one action, and the synchronous code up to the next await    *)
(* belongs to the action of the await before it.                           *)
(*                                                                         *)
(* "defaultA" and "defaultB" use an identifier supabaseClient that their   *)
(* files do not declare; it is taken to be the backend client, like the    *)
(* `supabase` of the other two versions.  GitHub, the identity service and *)
(* the log store are the environment: their answers are chosen             *)
(* nondeterministically among the outcomes the remote state allows, plus a *)
(* transient failure (500) of any GitHub request.                          *)
(***************************************************************************)
EXTENDS Integers, Sequences, FiniteSets, TLC

VARIABLES
    env,            \* process environment: which secrets are set
    refs,           \* GitHub: refs[repo][branch] = sha or NoSha
    defaultBranch,  \* GitHub: defaultBranch[repo], the repository's default branch
    logs,           \* git_sync_logs: sequence of rows
    live,           \* the invocations of this run
    variant,        \* variant[p]: which version of the handler serves p
    req,            \* req[p]: the HTTP request
    pc,             \* pc[p]: the await the invocation is suspended at
    user,           \* user[p]: result of the identity lookup
    loc,            \* loc[p]: local variables of the handler / performGitSync
    err,            \* err[p]: the error caught by the top-level catch
    resp,           \* resp[p]: the HTTP response
    calls,          \* calls[p]: every external call issued by p, in order
    urlIn,          \* URL parser harness: the input
    urlOut,         \* URL parser harness: the result
    urlPc,          \* URL parser harness: "idle" | "ready" | "done"
    authUser,       \* web client backend: the auth account of the member
    memberRow,      \* web client backend: the member's row of table members
    profile,        \* the call of updateProfileAndEmail: arguments, await, locals
    login           \* the Login component: its state and its handleLogin

\* the variables of the edge functions and those of the web client
edge == <<env, refs, defaultBranch, logs, live, variant, req, pc, user, loc, err, resp, calls,
          urlIn, urlOut, urlPc>>

client == <<authUser, memberRow, profile, login>>

vars == <<env, refs, defaultBranch, logs, live, variant, req, pc, user, loc, err, resp, calls,
          urlIn, urlOut, urlPc, authUser, memberRow, profile, login>>

-----------------------------------------------------------------------------
(* Bounds of the model. *)

\* longest path suffix the URL parser harness enumerates
MaxPathLen == 5

-----------------------------------------------------------------------------
(* Character strings. *)

HTTPS == <<"h","t","t","p","s",":","/","/">>
GITHUB_COM == <<"g","i","t","h","u","b",".","c","o","m">>
GITLAB_COM == <<"g","i","t","l","a","b",".","c","o","m">>
EVIL_COM == <<"e","v","i","l",".","c","o","m">>
DOT_GIT == <<".","g","i","t">>
SLASH == <<"/">>

\* 'https://github.com/' as replaced by the access check
GITHUB_PREFIX == HTTPS \o GITHUB_COM \o SLASH

\* 'github\.com\/' as matched by the regular expressions
GITHUB_SLASH == GITHUB_COM \o SLASH

MASTER_OWNER == <<"i","m","e","d","i","a","7","6","5">>
MASTER_NAME == <<"s","-","9","3","5","0","7","8">>

\* const MASTER_REPO = 'https://github.com/imedia765/s-935078.git'
MASTER_REPO == GITHUB_PREFIX \o MASTER_OWNER \o SLASH \o MASTER_NAME \o DOT_GIT

\* the value of a failed match / a null result
Null == [null |-> TRUE]

\* s starts with pat at index i
StartsAt(s, i, pat) ==
    /\ i >= 1
    /\ i + Len(pat) - 1 <= Len(s)
    /\ SubSeq(s, i, i + Len(pat) - 1) = pat

\* index of the first occurrence of pat in s at or after i, 0 when there is none
IndexOfFrom(s, pat, i) ==
    LET hits == {k \in i..Len(s) : StartsAt(s, k, pat)}
    IN  IF hits = {} THEN 0 ELSE CHOOSE k \in hits : \A j \in hits : k <= j

\* index of the first character of s at or after i that is in set stop,
\* Len(s) + 1 when there is none
FirstOf(s, i, stop) ==
    LET hits == {k \in i..Len(s) : s[k] \in stop}
    IN  IF hits = {} THEN Len(s) + 1 ELSE CHOOSE k \in hits : \A j \in hits : k <= j

\* String.prototype.replace(pat, '') with a string pattern: drops the first
\* occurrence of pat
ReplaceFirst(s, pat) ==
    LET k == IndexOfFrom(s, pat, 1)
    IN  IF k = 0 THEN s
        ELSE SubSeq(s, 1, k - 1) \o SubSeq(s, k + Len(pat), Len(s))

-----------------------------------------------------------------------------
(* URL parsing. *)

\* new URL(url).hostname for the http(s) URLs of the model; Null when the
\* constructor throws (no scheme, empty host)
Hostname(url) ==
    IF ~StartsAt(url, 1, HTTPS) THEN Null
    ELSE LET from == Len(HTTPS) + 1
             to == FirstOf(url, from, {"/", "?", "#"}) - 1
             auth == SubSeq(url, from, to)
             at == IndexOfFrom(auth, <<"@">>, 1)
             hostport == IF at = 0 THEN auth ELSE SubSeq(auth, at + 1, Len(auth))
             host == SubSeq(hostport, 1, FirstOf(hostport, 1, {":"}) - 1)
         IN  IF host = <<>> THEN Null ELSE [host |-> host]

\* one attempt of /github\.com\/([^\/]+)\/([^\.]+) .../ at index i of s.
\* anchored: the pattern goes on with (?:\.git)?$
MatchAt(s, i, anchored) ==
    IF ~StartsAt(s, i, GITHUB_SLASH) THEN Null
    ELSE LET o1 == i + Len(GITHUB_SLASH)
             sl == FirstOf(s, o1, {"/"})
             r1 == sl + 1
             r2 == FirstOf(s, r1, {"."}) - 1
         IN  IF sl > Len(s) \/ sl = o1 \/ r2 < r1 THEN Null
             ELSE IF anchored /\ r2 # Len(s) /\ SubSeq(s, r2 + 1, Len(s)) # DOT_GIT
                  THEN Null
                  ELSE [owner |-> SubSeq(s, o1, sl - 1), repo |-> SubSeq(s, r1, r2)]

\* the scan of the regular expression engine: the attempts at i, i + 1, ...
\* until one succeeds
RECURSIVE MatchFrom(_, _, _)
MatchFrom(s, i, anchored) ==
    IF i > Len(s) THEN Null
    ELSE IF MatchAt(s, i, anchored) # Null THEN MatchAt(s, i, anchored)
    ELSE MatchFrom(s, i + 1, anchored)

\* String.prototype.match with the (unanchored at the left) regular expression:
\* the leftmost index at which an attempt succeeds decides the groups
RegexMatch(s, anchored) == MatchFrom(s, 1, anchored)

\* validateGitHubUrl: host check by new URL, then the anchored regular expression
validateGitHubUrl(url) ==
    LET h == Hostname(url)
    IN  IF h = Null THEN Null
        ELSE IF h.host # GITHUB_COM THEN Null
        ELSE RegexMatch(url, TRUE)

-----------------------------------------------------------------------------
(* The requests, the repositories and the responses of the collaborators. *)

Procs == {"p1", "p2"}

Variants == {"hardcoded", "defaultA", "defaultB", "verify"}

\* variants whose top-level catch writes a failure row (index.ts 213-229,
\* part_002 138-154)
LoggingCatch == {"hardcoded", "verify"}

\* variants that run the default-branch orchestrator
DefaultVariants == {"defaultA", "defaultB"}

CUSTOM_OWNER == <<"a">>
CUSTOM_NAME == <<"b">>

U_CUSTOM_GIT == GITHUB_PREFIX \o CUSTOM_OWNER \o SLASH \o CUSTOM_NAME \o DOT_GIT
U_CUSTOM == GITHUB_PREFIX \o CUSTOM_OWNER \o SLASH \o CUSTOM_NAME
U_GITLAB == HTTPS \o GITLAB_COM \o SLASH \o CUSTOM_OWNER \o SLASH \o CUSTOM_NAME
U_EXTRA == U_CUSTOM \o SLASH \o <<"c">>
U_EVIL == HTTPS \o EVIL_COM \o SLASH \o GITHUB_COM \o SLASH \o CUSTOM_OWNER \o SLASH \o CUSTOM_NAME

\* <<>> is a missing (undefined or empty, falsy) field of the body
Missing == <<>>

Operations == {"pull", "push", "sync", "none"}
CustomUrls == {Missing, U_CUSTOM_GIT, U_GITLAB, U_EXTRA, U_EVIL, MASTER_REPO}
MasterUrls == {Missing, MASTER_REPO, U_CUSTOM, U_GITLAB}

Bodies == [operation : Operations, customUrl : CustomUrls, masterUrl : MasterUrls]

NoBody == [operation |-> "none", customUrl |-> Missing, masterUrl |-> Missing]

\* the repositories GitHub knows, by the path of their API URL
RepoIds == {"M", "C"}
RepoPath(r) ==
    IF r = "M" THEN MASTER_OWNER \o SLASH \o MASTER_NAME
    ELSE CUSTOM_OWNER \o SLASH \o CUSTOM_NAME

RepoOf(path) ==
    IF path = RepoPath("M") THEN "M"
    ELSE IF path = RepoPath("C") THEN "C"
    ELSE "none"

Branches == {"main", "dev"}
NoSha == "none"

\* the commit a ref of the initial remote state points at, when it exists
InitialSha(r, b) ==
    IF r = "M" THEN (IF b = "main" THEN "m1" ELSE "m2")
    ELSE (IF b = "main" THEN "c1" ELSE "c2")

Users == {"u1"}
NoUser == "none"

NoErr == [msg |-> "none", body |-> "none"]
\* cors: the response carries corsHeaders
NoResp == [status |-> 0, success |-> "none", cors |-> FALSE]

\* new Response(null, { headers: corsHeaders })
Preflight == [status |-> 200, success |-> "none", cors |-> TRUE]
\* JSON { success: true, ... }, default status
Success == [status |-> 200, success |-> "true", cors |-> TRUE]
\* JSON { success: false, error }, status 400
Failure == [status |-> 400, success |-> "false", cors |-> TRUE]

Unset == [kind |-> "unset", sha |-> NoSha]
NullRef == [kind |-> "null", sha |-> NoSha]
ThrownRef == [kind |-> "throw", sha |-> NoSha]

NoLoc == [checkPath |-> <<>>, masterPath |-> <<>>, customPath |-> <<>>,
          masterBranch |-> "none", customBranch |-> "none",
          srcPath |-> <<>>, srcBranch |-> "none",
          dstPath |-> <<>>, dstBranch |-> "none",
          srcRef |-> Unset, existingRef |-> Unset]

\* the response text of a failed GitHub request
BodyOf(status) ==
    CASE status = 404 -> "Not Found"
      [] status = 422 -> "Unprocessable"
      [] status = 500 -> "Server Error"
      [] OTHER -> "ok"

\* GET /repos/{path}
GhGetRepo(path, fault) ==
    LET st == IF fault THEN 500 ELSE IF RepoOf(path) = "none" THEN 404 ELSE 200
    IN  [status |-> st, body |-> BodyOf(st),
         value |-> IF st = 200 THEN defaultBranch[RepoOf(path)] ELSE "none"]

\* whether the ref exists on GitHub
RefExists(path, branch) ==
    /\ RepoOf(path) # "none"
    /\ branch \in Branches
    /\ refs[RepoOf(path)][branch] # NoSha

\* GET /repos/{path}/git/refs/heads/{branch}
GhGetRef(path, branch, fault) ==
    LET st == IF fault THEN 500 ELSE IF RefExists(path, branch) THEN 200 ELSE 404
    IN  [status |-> st, body |-> BodyOf(st),
         value |-> IF st = 200 THEN refs[RepoOf(path)][branch] ELSE NoSha]

\* POST /repos/{path}/git/refs  { ref: refs/heads/{branch}, sha }
GhCreateRef(path, branch, fault) ==
    LET st == IF fault THEN 500
              ELSE IF RepoOf(path) = "none" \/ branch \notin Branches THEN 404
              ELSE IF RefExists(path, branch) THEN 422
              ELSE 201
    IN  [status |-> st, body |-> BodyOf(st), value |-> "none"]

\* PATCH /repos/{path}/git/refs/heads/{branch}  { sha, force: true }
GhUpdateRef(path, branch, fault) ==
    LET st == IF fault THEN 500
              ELSE IF RepoOf(path) = "none" \/ branch \notin Branches THEN 404
              ELSE IF ~RefExists(path, branch) THEN 422
              ELSE 200
    IN  [status |-> st, body |-> BodyOf(st), value |-> "none"]

\* response.ok
Ok(r) == r.status \in {200, 201}

\* the remote state after a mutating request answered r
RefsAfter(path, branch, sha, r) ==
    IF Ok(r) THEN [refs EXCEPT ![RepoOf(path)][branch] = sha] ELSE refs

\* authHeader.replace('Bearer ', ''): the caller's token
BearerOf(rq) == IF rq.auth THEN "jwt" ELSE "none"

\* Deno.env.get('GITHUB_PAT')
GitHubToken(e) == IF e.pat THEN "GITHUB_PAT" ELSE "undefined"

\* faulty fetch headers: the caller's token is forwarded to GitHub
GitHubAuth_ForwardsJwt(e, rq) == BearerOf(rq)

\* the credential of the Authorization header of a request to GitHub
\* (`token ${githubToken}`, `Bearer ${token}`)
GitHubAuth(e, rq) == GitHubToken(e)

\* the token handed to supabase.auth.getUser
IdentityAuth(rq) == BearerOf(rq)

\* the number of ref writes GitHub has applied so far
Applied ==
    Cardinality(UNION {{<<p, i>> : i \in {k \in DOMAIN calls[p] : calls[p][k].at > 0}} :
                         p \in Procs})

\* one external call, as recorded in calls[p].  at: for a ref write that
\* GitHub applied, its place in the order in which GitHub applied the writes;
\* 0 for every other call
Call(step, svc, method, path, branch, sha, force, cred, r) ==
    [step |-> step, svc |-> svc, method |-> method, path |-> path, branch |-> branch,
     sha |-> sha, force |-> force, cred |-> cred, status |-> r.status, body |-> r.body,
     value |-> r.value,
     at |-> IF svc = "github" /\ method \in {"POST", "PATCH"} /\ Ok(r)
            THEN Applied + 1 ELSE 0]

\* a git_sync_logs row; inv names the invocation that inserted it
Row(type, status, by, inv) ==
    [operation_type |-> type, status |-> status, created_by |-> by, inv |-> inv]

-----------------------------------------------------------------------------
(* The synchronous code of the handlers between two awaits: what the        *)
(* invocation does with the result of the await it was suspended at.  Each  *)
(* operator yields the next await (pc), the error thrown, the response and  *)
(* the locals.                                                              *)

Goto(at, l) == [pc |-> at, err |-> NoErr, resp |-> NoResp, loc |-> l]

Respond200(l) == [pc |-> "done", err |-> NoErr, resp |-> Success, loc |-> l]

\* throw inside the handler's try: the top-level catch.  The logging variants
\* insert a failure row when the backend secrets are set; all answer 400
Thrown(v, l, msg, body) ==
    IF v \in LoggingCatch /\ env.supabase
    THEN [pc |-> "errorLog", err |-> [msg |-> msg, body |-> body], resp |-> NoResp, loc |-> l]
    ELSE [pc |-> "done", err |-> [msg |-> msg, body |-> body], resp |-> Failure, loc |-> l]

\* faulty performGitSync: the write is handed the SHA of the existing
\* destination ref instead of the SHA read from the source
TargetSha_OfDestination(l) == l.existingRef.sha

\* masterRef.object.sha / customRef.object.sha: the SHA handed to the write
TargetSha(l) == l.srcRef.sha

\* `${owner}/${repo}` of a match
PathOf(m) == m.owner \o SLASH \o m.repo

\* faulty plan: the direction of the sync is reversed
SyncPlan_Reversed(op, l) ==
    IF op = "push"
    THEN [l EXCEPT !.srcPath = l.masterPath, !.srcBranch = l.masterBranch,
                   !.dstPath = l.customPath, !.dstBranch = l.customBranch]
    ELSE [l EXCEPT !.srcPath = l.customPath, !.srcBranch = l.customBranch,
                   !.dstPath = l.masterPath, !.dstBranch = l.masterBranch]

\* faulty plan: the operation is ignored, every sync is a pull
SyncPlan_AlwaysPull(op, l) ==
    [l EXCEPT !.srcPath = l.masterPath, !.srcBranch = l.masterBranch,
              !.dstPath = l.customPath, !.dstBranch = l.customBranch]

\* which repository and branch is read and which is written
SyncPlan(op, l) ==
    IF op = "pull"
    THEN [l EXCEPT !.srcPath = l.masterPath, !.srcBranch = l.masterBranch,
                   !.dstPath = l.customPath, !.dstBranch = l.customBranch]
    ELSE [l EXCEPT !.srcPath = l.customPath, !.srcBranch = l.customBranch,
                   !.dstPath = l.masterPath, !.dstBranch = l.masterBranch]

\* faulty performGitSync of the hardcoded-master variant: the master
\* repository is the one the request names
StartSyncHardcoded_UsesMasterUrl(v, rq, l) ==
    LET c == RegexMatch(rq.customUrl, FALSE)
        m == IF rq.masterUrl = Missing THEN Null ELSE RegexMatch(rq.masterUrl, FALSE)
    IN  IF c = Null \/ m = Null THEN Thrown(v, l, "Invalid repository URLs", "none")
        ELSE LET l2 == [l EXCEPT !.masterPath = PathOf(m), !.customPath = PathOf(c),
                                 !.masterBranch = "main", !.customBranch = "main"]
             IN  IF rq.operation \in {"pull", "push"}
                 THEN Goto("readSource", SyncPlan(rq.operation, l2))
                 ELSE Goto("insertLog", l2)

\* performGitSync of the hardcoded-master variant up to its first fetch
StartSyncHardcoded(v, rq, l) ==
    LET c == RegexMatch(rq.customUrl, FALSE)
        m == RegexMatch(MASTER_REPO, FALSE)
    IN  IF c = Null \/ m = Null THEN Thrown(v, l, "Invalid repository URLs", "none")
        ELSE LET l2 == [l EXCEPT !.masterPath = PathOf(m), !.customPath = PathOf(c),
                                 !.masterBranch = "main", !.customBranch = "main"]
             IN  IF rq.operation \in {"pull", "push"}
                 THEN Goto("readSource", SyncPlan(rq.operation, l2))
                 ELSE Goto("insertLog", l2)

\* the URL check of performGitSync in the default-branch variants
ParseRepoUrl(v, url) ==
    IF v = "defaultB" THEN validateGitHubUrl(url) ELSE RegexMatch(url, TRUE)

\* performGitSync of the default-branch variants up to its first fetch
StartSyncDefault(v, rq, l) ==
    LET c == ParseRepoUrl(v, rq.customUrl)
        m == ParseRepoUrl(v, rq.masterUrl)
    IN  IF c = Null \/ m = Null THEN Thrown(v, l, "Invalid repository URLs", "none")
        ELSE Goto("masterBranch", [l EXCEPT !.masterPath = PathOf(m), !.customPath = PathOf(c)])

\* faulty handler: the Authorization header is not checked
OnReceive_NoAuthCheck(v, rq) ==
    IF rq.method = "OPTIONS"
    THEN [pc |-> "done", err |-> NoErr, resp |-> Preflight, loc |-> NoLoc]
    ELSE IF v \in LoggingCatch /\ ~env.supabase
    THEN Thrown(v, NoLoc, "Server configuration error", "none")
    ELSE IF v \in DefaultVariants /\ ~env.pat
    THEN Thrown(v, NoLoc, "GitHub token not configured", "none")
    ELSE Goto("getUser", NoLoc)

\* faulty handler: the preflight is answered inside the try, after the checks
\* of the configuration and of the Authorization header
OnReceive_PreflightAfterChecks(v, rq) ==
    IF v \in LoggingCatch /\ ~env.supabase
    THEN Thrown(v, NoLoc, "Server configuration error", "none")
    ELSE IF ~rq.auth THEN Thrown(v, NoLoc, "No authorization header", "none")
    ELSE IF v \in DefaultVariants /\ ~env.pat
    THEN Thrown(v, NoLoc, "GitHub token not configured", "none")
    ELSE IF rq.method = "OPTIONS"
    THEN [pc |-> "done", err |-> NoErr, resp |-> Preflight, loc |-> NoLoc]
    ELSE Goto("getUser", NoLoc)

\* the handler from the request to its first await
OnReceive(v, rq) ==
    IF rq.method = "OPTIONS"
    THEN [pc |-> "done", err |-> NoErr, resp |-> Preflight, loc |-> NoLoc]
    ELSE IF v \in LoggingCatch
    THEN IF ~env.supabase THEN Thrown(v, NoLoc, "Server configuration error", "none")
         ELSE IF ~rq.auth THEN Thrown(v, NoLoc, "No authorization header", "none")
         ELSE Goto("getUser", NoLoc)
    ELSE IF ~rq.auth THEN Thrown(v, NoLoc, "No authorization header", "none")
         ELSE IF ~env.pat THEN Thrown(v, NoLoc, "GitHub token not configured", "none")
         ELSE Goto("getUser", NoLoc)

\* repoToCheck.replace('https://github.com/', '').replace('.git', '')
RepoPathOfUrl(url) == ReplaceFirst(ReplaceFirst(url, GITHUB_PREFIX), DOT_GIT)

\* faulty handler: the result of the identity lookup is not looked at
OnGetUser_IgnoresLookup(v, rq, l, u) ==
    CASE v = "hardcoded" ->
           IF rq.operation = "none" \/ rq.customUrl = Missing
           THEN Thrown(v, l, "Operation type and custom repository URL are required", "none")
           ELSE IF ~env.pat THEN Thrown(v, l, "GitHub token not configured", "none")
           ELSE Goto("repoCheck",
                     [l EXCEPT !.checkPath =
                         RepoPathOfUrl(IF rq.operation = "push" THEN MASTER_REPO
                                       ELSE rq.customUrl)])
      [] v = "verify" ->
           IF rq.operation = "none" THEN Thrown(v, l, "Operation type is required", "none")
           ELSE IF rq.operation = "push" /\ rq.customUrl = Missing
           THEN Thrown(v, l, "Custom repository URL is required for push operations", "none")
           ELSE IF rq.operation = "pull" /\ rq.masterUrl = Missing
           THEN Thrown(v, l, "Master repository URL is required for pull operations", "none")
           ELSE IF ~env.pat THEN Thrown(v, l, "GitHub token not configured", "none")
           ELSE LET repoUrl == IF rq.operation = "push" THEN rq.customUrl ELSE rq.masterUrl
                IN  IF repoUrl = Missing THEN Thrown(v, l, "TypeError", "none")
                    ELSE Goto("repoCheck", [l EXCEPT !.checkPath = RepoPathOfUrl(repoUrl)])
      [] v = "defaultA" ->
           IF rq.customUrl = Missing THEN Thrown(v, l, "TypeError", "none")
           ELSE LET m == RegexMatch(rq.customUrl, TRUE)
                IN  IF m = Null THEN Thrown(v, l, "Invalid repository URL", "none")
                    ELSE Goto("repoCheck", [l EXCEPT !.checkPath = PathOf(m)])
      [] OTHER ->
           IF rq.customUrl = Missing \/ (rq.operation = "push" /\ rq.masterUrl = Missing)
           THEN Thrown(v, l, "Missing required URLs", "none")
           ELSE IF validateGitHubUrl(rq.customUrl) = Null
           THEN Thrown(v, l, "Invalid custom repository URL", "none")
           ELSE Goto("insertLog", l)

\* the handler after supabase.auth.getUser answered u
OnGetUser(v, rq, l, u) ==
    CASE v = "hardcoded" ->
           IF u = NoUser THEN Thrown(v, l, "Invalid token", "none")
           ELSE IF rq.operation = "none" \/ rq.customUrl = Missing
           THEN Thrown(v, l, "Operation type and custom repository URL are required", "none")
           ELSE IF ~env.pat THEN Thrown(v, l, "GitHub token not configured", "none")
           ELSE Goto("repoCheck",
                     [l EXCEPT !.checkPath =
                         RepoPathOfUrl(IF rq.operation = "push" THEN MASTER_REPO
                                       ELSE rq.customUrl)])
      [] v = "verify" ->
           IF u = NoUser THEN Thrown(v, l, "Invalid token", "none")
           ELSE IF rq.operation = "none" THEN Thrown(v, l, "Operation type is required", "none")
           ELSE IF rq.operation = "push" /\ rq.customUrl = Missing
           THEN Thrown(v, l, "Custom repository URL is required for push operations", "none")
           ELSE IF rq.operation = "pull" /\ rq.masterUrl = Missing
           THEN Thrown(v, l, "Master repository URL is required for pull operations", "none")
           ELSE IF ~env.pat THEN Thrown(v, l, "GitHub token not configured", "none")
           ELSE LET repoUrl == IF rq.operation = "push" THEN rq.customUrl ELSE rq.masterUrl
                IN  IF repoUrl = Missing THEN Thrown(v, l, "TypeError", "none")
                    ELSE Goto("repoCheck", [l EXCEPT !.checkPath = RepoPathOfUrl(repoUrl)])
      [] v = "defaultA" ->
           IF u = NoUser THEN Thrown(v, l, "TypeError", "none")
           ELSE IF rq.customUrl = Missing THEN Thrown(v, l, "TypeError", "none")
           ELSE LET m == RegexMatch(rq.customUrl, TRUE)
                IN  IF m = Null THEN Thrown(v, l, "Invalid repository URL", "none")
                    ELSE Goto("repoCheck", [l EXCEPT !.checkPath = PathOf(m)])
      [] OTHER ->
           IF u = NoUser THEN Thrown(v, l, "TypeError", "none")
           ELSE IF rq.customUrl = Missing \/ (rq.operation = "push" /\ rq.masterUrl = Missing)
           THEN Thrown(v, l, "Missing required URLs", "none")
           ELSE IF validateGitHubUrl(rq.customUrl) = Null
           THEN Thrown(v, l, "Invalid custom repository URL", "none")
           ELSE Goto("insertLog", l)

\* faulty handler: the verify-only variant goes on to synchronise
OnRepoCheck_VerifySyncs(v, rq, l, r) ==
    IF ~Ok(r)
    THEN Thrown(v, l, IF v = "defaultA" THEN "Failed to access repository"
                      ELSE "Repository access failed", r.body)
    ELSE IF v \in LoggingCatch THEN StartSyncHardcoded(v, rq, l)
    ELSE Goto("insertLog", l)

\* the handler after the repository access check answered r
OnRepoCheck(v, rq, l, r) ==
    IF ~Ok(r)
    THEN Thrown(v, l, IF v = "defaultA" THEN "Failed to access repository"
                      ELSE "Repository access failed", r.body)
    ELSE IF v = "hardcoded" THEN StartSyncHardcoded(v, rq, l)
    ELSE Goto("insertLog", l)

\* the handler after the insert of the 'completed' row answered
OnInsertLog(v, rq, l, inserted) ==
    IF ~inserted
    THEN Thrown(v, l, IF v \in DefaultVariants THEN "logError"
                      ELSE "Failed to create operation log", "none")
    ELSE IF v \in DefaultVariants /\ rq.masterUrl # Missing THEN StartSyncDefault(v, rq, l)
    ELSE Respond200(l)

\* faulty getDefaultBranch: a failed response is not raised
OnMasterBranch_ContinuesOnFailure(v, l, r) ==
    Goto("customBranch", [l EXCEPT !.masterBranch = r.value])

\* performGitSync after getDefaultBranch(master) answered r
OnMasterBranch(v, l, r) ==
    IF ~Ok(r) THEN Thrown(v, l, "Failed to get repository info", r.body)
    ELSE Goto("customBranch", [l EXCEPT !.masterBranch = r.value])

\* performGitSync after getDefaultBranch(custom) answered r
OnCustomBranch(v, rq, l, r) ==
    IF ~Ok(r) THEN Thrown(v, l, "Failed to get repository info", r.body)
    ELSE LET l2 == [l EXCEPT !.customBranch = r.value]
         IN  IF rq.operation \in {"pull", "push"}
             THEN Goto("readSource", SyncPlan(rq.operation, l2))
             ELSE Respond200(l2)

\* faulty getGitHubReference: a 404 is raised like any other failure
getGitHubReference_404Raises(r) ==
    IF ~Ok(r) THEN ThrownRef ELSE [kind |-> "value", sha |-> r.value]

\* getGitHubReference: the result for the response r of its one GET
getGitHubReference(r) ==
    IF ~Ok(r)
    THEN IF r.status = 404 THEN NullRef ELSE ThrownRef
    ELSE [kind |-> "value", sha |-> r.value]

\* faulty performGitSync: the null check of the source ref is missing
OnReadSource_NoNullCheck(v, rq, l, r) ==
    IF ~Ok(r) /\ r.status # 404
    THEN Thrown(v, [l EXCEPT !.srcRef = ThrownRef], "Failed to get reference", r.body)
    ELSE Goto(IF v = "hardcoded" THEN "patchRef" ELSE "checkDest",
              [l EXCEPT !.srcRef = [kind |-> IF Ok(r) THEN "value" ELSE "null",
                                    sha |-> r.value]])

\* performGitSync after the read of the source ref answered r
OnReadSource(v, rq, l, r) ==
    IF v = "hardcoded"
    THEN IF ~Ok(r)
         THEN Thrown(v, [l EXCEPT !.srcRef = ThrownRef],
                     IF rq.operation = "pull" THEN "Failed to get master branch"
                     ELSE "Failed to get custom branch", r.body)
         ELSE Goto("patchRef", [l EXCEPT !.srcRef = [kind |-> "value", sha |-> r.value]])
    ELSE LET ref == getGitHubReference(r)
             l2 == [l EXCEPT !.srcRef = ref]
         IN  CASE ref.kind = "throw" -> Thrown(v, l2, "Failed to get reference", r.body)
               [] ref.kind = "null" ->
                    Thrown(v, l2, IF rq.operation = "pull"
                                  THEN "Master branch reference not found"
                                  ELSE "Custom branch reference not found", "none")
               [] OTHER -> Goto("checkDest", l2)

\* faulty updateGitHubReference: it force-updates whether or not the ref exists
OnCheckDest_AlwaysPatch(v, l, r) ==
    LET ref == getGitHubReference(r)
        l2 == [l EXCEPT !.existingRef = ref]
    IN  IF ref.kind = "throw" THEN Thrown(v, l2, "Failed to get reference", r.body)
        ELSE Goto("patchRef", l2)

\* faulty updateGitHubReference: it creates the ref whether or not it exists
OnCheckDest_AlwaysCreate(v, l, r) ==
    LET ref == getGitHubReference(r)
        l2 == [l EXCEPT !.existingRef = ref]
    IN  IF ref.kind = "throw" THEN Thrown(v, l2, "Failed to get reference", r.body)
        ELSE Goto("createRef", l2)

\* faulty updateGitHubReference: an existing ref is left as it is
OnCheckDest_KeepsExisting(v, l, r) ==
    LET ref == getGitHubReference(r)
        l2 == [l EXCEPT !.existingRef = ref]
    IN  CASE ref.kind = "throw" -> Thrown(v, l2, "Failed to get reference", r.body)
          [] ref.kind = "null" -> Goto("createRef", l2)
          [] OTHER -> Respond200(l2)

\* updateGitHubReference after its existence check answered r
OnCheckDest(v, l, r) ==
    LET ref == getGitHubReference(r)
        l2 == [l EXCEPT !.existingRef = ref]
    IN  CASE ref.kind = "throw" -> Thrown(v, l2, "Failed to get reference", r.body)
          [] ref.kind = "null" -> Goto("createRef", l2)
          [] OTHER -> Goto("patchRef", l2)

\* faulty updateGitHubReference: the create falls through to the force-update
OnCreateRef_ThenPatch(v, l, r) ==
    IF ~Ok(r) THEN Thrown(v, l, "Failed to create reference", r.body)
    ELSE Goto("patchRef", l)

\* faulty createGitHubReference: the refusal of a ref that already exists
\* is taken as success
OnCreateRef_AcceptsExisting(v, l, r) ==
    IF ~Ok(r) /\ r.status # 422 THEN Thrown(v, l, "Failed to create reference", r.body)
    ELSE Respond200(l)

\* createGitHubReference after its POST answered r
OnCreateRef(v, l, r) ==
    IF ~Ok(r) THEN Thrown(v, l, "Failed to create reference", r.body)
    ELSE Respond200(l)

\* after the PATCH answered r
OnPatchRef(v, rq, l, r) ==
    IF ~Ok(r)
    THEN Thrown(v, l, IF v # "hardcoded" THEN "Failed to update reference"
                      ELSE IF rq.operation = "pull" THEN "Failed to update custom repository"
                      ELSE "Failed to update master repository", r.body)
    ELSE IF v = "hardcoded" THEN Goto("insertLog", l)
    ELSE Respond200(l)

\* the catch block after its insert of the failure row
OnErrorLog(e) == [pc |-> "done", err |-> e, resp |-> Failure]

-----------------------------------------------------------------------------
(* The actions: one per await of the handlers. *)

Methods == {"POST", "OPTIONS"}

Idle(x) == [q \in Procs |-> x]

NoReq == [method |-> "none", auth |-> FALSE, operation |-> "none",
          customUrl |-> Missing, masterUrl |-> Missing]

WithBody(rq, b) ==
    [rq EXCEPT !.operation = b.operation, !.customUrl = b.customUrl,
               !.masterUrl = b.masterUrl]

Apply(p, s) ==
    /\ pc' = [pc EXCEPT ![p] = s.pc]
    /\ err' = [err EXCEPT ![p] = s.err]
    /\ resp' = [resp EXCEPT ![p] = s.resp]
    /\ loc' = [loc EXCEPT ![p] = s.loc]

Record(p, c) == calls' = [calls EXCEPT ![p] = Append(@, c)]

NoAnswer == [status |-> 0, body |-> "none", value |-> "none"]

\* the answer of the log store to an insert
Inserted(ok) == [status |-> IF ok THEN 201 ELSE 500, body |-> "none", value |-> "none"]

\* a request arrives at one of the handlers.  The default-branch variants
\* read the body (await req.json()) before their first external call
Receive(p) ==
    /\ p \in live
    /\ pc[p] = "idle"
    /\ \E v \in Variants, m \in Methods, a \in BOOLEAN :
         LET head == [NoReq EXCEPT !.method = m, !.auth = a]
             first == OnReceive(v, head)
         IN  \E b \in (IF v \in DefaultVariants /\ first.pc = "getUser"
                        THEN Bodies ELSE {NoBody}) :
               /\ variant' = [variant EXCEPT ![p] = v]
               /\ req' = [req EXCEPT ![p] = WithBody(head, b)]
               /\ Apply(p, first)
    /\ UNCHANGED <<env, refs, defaultBranch, logs, live, user, calls, urlIn, urlOut, urlPc, client>>

\* supabase.auth.getUser(jwt) answers.  The logging variants read the body
\* (await req.json()) once the user is resolved
GetUser(p) ==
    /\ pc[p] = "getUser"
    /\ \E u \in Users \cup {NoUser} :
         \E b \in (IF variant[p] \in LoggingCatch /\ u # NoUser
                    THEN Bodies ELSE {[f \in {"operation", "customUrl", "masterUrl"} |->
                                         req[p][f]]}) :
           LET rq == WithBody(req[p], b)
           IN  /\ user' = [user EXCEPT ![p] = u]
               /\ req' = [req EXCEPT ![p] = rq]
               /\ Apply(p, OnGetUser(variant[p], rq, loc[p], u))
    /\ Record(p, Call("getUser", "identity", "GET", <<>>, "none", NoSha, FALSE,
                      IdentityAuth(req[p]), NoAnswer))
    /\ UNCHANGED <<env, refs, defaultBranch, logs, live, variant, urlIn, urlOut, urlPc, client>>

\* GET /repos/{path} of the access check answers
RepoCheck(p) ==
    /\ pc[p] = "repoCheck"
    /\ \E fault \in BOOLEAN :
         LET r == GhGetRepo(loc[p].checkPath, fault)
         IN  /\ Apply(p, OnRepoCheck(variant[p], req[p], loc[p], r))
             /\ Record(p, Call("repoCheck", "github", "GET", loc[p].checkPath, "none",
                               NoSha, FALSE, GitHubAuth(env, req[p]), r))
    /\ UNCHANGED <<env, refs, defaultBranch, logs, live, variant, req, user,
                   urlIn, urlOut, urlPc, client>>

\* the insert of the 'completed' row answers
InsertLog(p) ==
    /\ pc[p] = "insertLog"
    /\ \E inserted \in BOOLEAN :
         /\ logs' = IF inserted
                    THEN Append(logs, Row(req[p].operation, "completed", user[p], p))
                    ELSE logs
         /\ Apply(p, OnInsertLog(variant[p], req[p], loc[p], inserted))
         /\ Record(p, Call("insertLog", "log", "POST", <<>>, "none", NoSha, FALSE,
                           "service", Inserted(inserted)))
    /\ UNCHANGED <<env, refs, defaultBranch, live, variant, req, user, urlIn, urlOut, urlPc, client>>

\* getDefaultBranch(master) answers
MasterBranch(p) ==
    /\ pc[p] = "masterBranch"
    /\ \E fault \in BOOLEAN :
         LET r == GhGetRepo(loc[p].masterPath, fault)
         IN  /\ Apply(p, OnMasterBranch(variant[p], loc[p], r))
             /\ Record(p, Call("masterBranch", "github", "GET", loc[p].masterPath, "none",
                               NoSha, FALSE, GitHubAuth(env, req[p]), r))
    /\ UNCHANGED <<env, refs, defaultBranch, logs, live, variant, req, user,
                   urlIn, urlOut, urlPc, client>>

\* getDefaultBranch(custom) answers
CustomBranch(p) ==
    /\ pc[p] = "customBranch"
    /\ \E fault \in BOOLEAN :
         LET r == GhGetRepo(loc[p].customPath, fault)
         IN  /\ Apply(p, OnCustomBranch(variant[p], req[p], loc[p], r))
             /\ Record(p, Call("customBranch", "github", "GET", loc[p].customPath, "none",
                               NoSha, FALSE, GitHubAuth(env, req[p]), r))
    /\ UNCHANGED <<env, refs, defaultBranch, logs, live, variant, req, user,
                   urlIn, urlOut, urlPc, client>>

\* the GET of the source ref answers
ReadSource(p) ==
    /\ pc[p] = "readSource"
    /\ \E fault \in BOOLEAN :
         LET r == GhGetRef(loc[p].srcPath, loc[p].srcBranch, fault)
         IN  /\ Apply(p, OnReadSource(variant[p], req[p], loc[p], r))
             /\ Record(p, Call("readSource", "github", "GET", loc[p].srcPath,
                               loc[p].srcBranch, NoSha, FALSE, GitHubAuth(env, req[p]), r))
    /\ UNCHANGED <<env, refs, defaultBranch, logs, live, variant, req, user,
                   urlIn, urlOut, urlPc, client>>

\* the existence check of updateGitHubReference answers
CheckDest(p) ==
    /\ pc[p] = "checkDest"
    /\ \E fault \in BOOLEAN :
         LET r == GhGetRef(loc[p].dstPath, loc[p].dstBranch, fault)
         IN  /\ Apply(p, OnCheckDest(variant[p], loc[p], r))
             /\ Record(p, Call("checkDest", "github", "GET", loc[p].dstPath,
                               loc[p].dstBranch, NoSha, FALSE, GitHubAuth(env, req[p]), r))
    /\ UNCHANGED <<env, refs, defaultBranch, logs, live, variant, req, user,
                   urlIn, urlOut, urlPc, client>>

\* the POST of createGitHubReference answers
CreateRef(p) ==
    /\ pc[p] = "createRef"
    /\ \E fault \in BOOLEAN :
         LET l == loc[p]
             r == GhCreateRef(l.dstPath, l.dstBranch, fault)
         IN  /\ refs' = RefsAfter(l.dstPath, l.dstBranch, TargetSha(l), r)
             /\ Apply(p, OnCreateRef(variant[p], l, r))
             /\ Record(p, Call("createRef", "github", "POST", l.dstPath, l.dstBranch,
                               TargetSha(l), FALSE, GitHubAuth(env, req[p]), r))
    /\ UNCHANGED <<env, defaultBranch, logs, live, variant, req, user, urlIn, urlOut, urlPc, client>>

\* the PATCH (force: true) answers
PatchRef(p) ==
    /\ pc[p] = "patchRef"
    /\ \E fault \in BOOLEAN :
         LET l == loc[p]
             r == GhUpdateRef(l.dstPath, l.dstBranch, fault)
         IN  /\ refs' = RefsAfter(l.dstPath, l.dstBranch, TargetSha(l), r)
             /\ Apply(p, OnPatchRef(variant[p], req[p], l, r))
             /\ Record(p, Call("patchRef", "github", "PATCH", l.dstPath, l.dstBranch,
                               TargetSha(l), TRUE, GitHubAuth(env, req[p]), r))
    /\ UNCHANGED <<env, defaultBranch, logs, live, variant, req, user, urlIn, urlOut, urlPc, client>>

\* the insert of the failure row in the catch block answers (or throws, which
\* the inner try swallows); then the 400 response
ErrorLog(p) ==
    /\ pc[p] = "errorLog"
    /\ \E inserted \in BOOLEAN :
         /\ logs' = IF inserted THEN Append(logs, Row("error", "failed", NoUser, p)) ELSE logs
         /\ Record(p, Call("errorLog", "log", "POST", <<>>, "none", NoSha, FALSE,
                           "service", Inserted(inserted)))
    /\ pc' = [pc EXCEPT ![p] = "done"]
    /\ resp' = [resp EXCEPT ![p] = OnErrorLog(err[p]).resp]
    /\ UNCHANGED <<env, refs, defaultBranch, live, variant, req, user, loc, err,
                   urlIn, urlOut, urlPc, client>>

-----------------------------------------------------------------------------
(* The web client: updateProfileAndEmail (src/utils/profileUpdateHandler.ts) *)
(* and the Login page (src/pages/Login.tsx).  The backend holds one member:  *)
(* its row of table members and its auth account.  Every await is one        *)
(* action; the backend answers with the outcome its state gives, or with a   *)
(* failure of the request.                                                   *)

\* '@temp.pwaburton.org'
TEMP_DOMAIN == <<"@","t","e","m","p",".","p","w","a","b","u","r","t","o","n",".","o","r","g">>

\* the member number of the member of the model
MEMBER_NUMBER == <<"T","1">>

\* the characters a member ID is typed from
IdChars == {"t", "T", "1", " "}

ToUpperChar(c) == IF c = "t" THEN "T" ELSE c
ToLowerChar(c) == IF c = "T" THEN "t" ELSE c

\* String.prototype.toUpperCase / toLowerCase
toUpperCase(s) == [i \in 1..Len(s) |-> ToUpperChar(s[i])]
toLowerCase(s) == [i \in 1..Len(s) |-> ToLowerChar(s[i])]

\* String.prototype.trim
trim(s) ==
    LET inked == {i \in 1..Len(s) : s[i] # " "}
    IN  IF inked = {} THEN <<>>
        ELSE SubSeq(s, CHOOSE i \in inked : \A j \in inked : i <= j,
                       CHOOSE i \in inked : \A j \in inked : j <= i)

\* String.prototype.includes
includes(s, pat) == IndexOfFrom(s, pat, 1) # 0

\* the temporary address of the member and two ordinary addresses
TEMP_EMAIL == <<"t","1">> \o TEMP_DOMAIN
HOME_EMAIL == <<"t","@","h">>
WORK_EMAIL == <<"t","@","w">>
Emails == {TEMP_EMAIL, HOME_EMAIL, WORK_EMAIL}

\* passwords; "" is the empty string
Passwords == {"p", "q"}

MemberRows ==
    [member_number : {MEMBER_NUMBER}, email : {TEMP_EMAIL, HOME_EMAIL},
     email_verified : BOOLEAN, password_changed : BOOLEAN,
     default_password_hash : {"hash"}, profile_updated : {FALSE},
     updated_at : {"before"}]

NoCall == [pc |-> "idle", newPassword |-> "", oldEmail |-> <<>>, newEmail |-> <<>>,
           currentMember |-> Null, error |-> "none", calls |-> <<>>]

\* one request to the backend and whether it was answered without error
Request(step, arg, ok) == [step |-> step, arg |-> arg, ok |-> ok]

\* throw: updateProfileAndEmail rejects with the error
Rejected(pr, msg) == [pr EXCEPT !.pc = "thrown", !.error = msg]

\* after supabase.auth.getUser() answered: "user", "noEmail" or "error"
AfterGetUser(pr, ans) ==
    IF ans # "user" THEN Rejected(pr, "User session expired")
    ELSE [pr EXCEPT !.pc = "selectMember"]

\* faulty condition: the temporary address is not exempted
NeedsEmailUpdate_IgnoresTemp(newEmail, oldEmail) == newEmail # oldEmail

\* the condition of the auth email update
NeedsEmailUpdate(newEmail, oldEmail) ==
    newEmail # oldEmail /\ ~includes(oldEmail, TEMP_DOMAIN)

\* the await that follows the password step
EmailStep(pr) ==
    IF NeedsEmailUpdate(pr.newEmail, pr.oldEmail) THEN "updateEmail" ELSE "updateMember"

\* after the select of the member by oldEmail answered
AfterSelectMember(pr, ok, row) ==
    IF ~ok THEN Rejected(pr, "Failed to verify current member data")
    ELSE [pr EXCEPT !.currentMember = row,
                    !.pc = IF pr.newPassword # "" THEN "updatePassword" ELSE EmailStep(pr)]

\* faulty updateProfileAndEmail: the error of the password update is only
\* logged
AfterUpdatePassword_SwallowsError(pr, ans) == [pr EXCEPT !.pc = EmailStep(pr)]

\* after auth.updateUser({ password }) answered: "ok", "same_password" or "error"
AfterUpdatePassword(pr, ans) ==
    CASE ans = "ok" -> [pr EXCEPT !.pc = EmailStep(pr)]
      [] ans = "same_password" ->
           Rejected(pr, "New password must be different from your current password")
      [] OTHER -> Rejected(pr, "pwError")

\* after auth.updateUser({ email }) answered
AfterUpdateEmail(pr, ok) ==
    IF ~ok THEN Rejected(pr, "emailError") ELSE [pr EXCEPT !.pc = "updateMember"]

\* after the update of the members row answered
AfterUpdateMember(pr, ok) ==
    IF ~ok THEN Rejected(pr, "updateError") ELSE [pr EXCEPT !.pc = "returned"]

\* updatedData: the fields of the members row the update writes
updatedData(pr) ==
    [email |-> pr.newEmail,
     password_changed |-> IF pr.newPassword # "" THEN TRUE
                          ELSE pr.currentMember.password_changed,
     email_verified |-> IF pr.newEmail # pr.oldEmail THEN FALSE
                        ELSE pr.currentMember.email_verified,
     default_password_hash |-> IF pr.newPassword # "" THEN pr.newPassword
                               ELSE pr.currentMember.default_password_hash,
     profile_updated |-> TRUE,
     updated_at |-> "now"]

\* the row after .update(data).eq('email', oldEmail)
RowAfterUpdate(row, data, oldEmail) ==
    IF row.email # oldEmail THEN row
    ELSE [row EXCEPT !.email = data.email,
                     !.password_changed = data.password_changed,
                     !.email_verified = data.email_verified,
                     !.default_password_hash = data.default_password_hash,
                     !.profile_updated = data.profile_updated,
                     !.updated_at = data.updated_at]

\* updateProfileAndEmail(formData, newPassword, oldEmail) is called; it runs
\* to its first await
updateProfileAndEmail ==
    /\ profile.pc = "idle"
    /\ \E pw \in Passwords \cup {""}, old \in Emails, new \in Emails \cup {<<>>} :
         profile' = [NoCall EXCEPT !.pc = "getUser", !.newPassword = pw,
                                   !.oldEmail = old, !.newEmail = new]
    /\ UNCHANGED <<authUser, memberRow, login>>
    /\ UNCHANGED edge

\* supabase.auth.getUser() answers
AuthGetUser ==
    /\ profile.pc = "getUser"
    /\ \E ans \in {"user", "noEmail", "error"} :
         profile' = [AfterGetUser(profile, ans) EXCEPT
                        !.calls = Append(@, Request("getUser", <<>>, ans # "error"))]
    /\ UNCHANGED <<authUser, memberRow, login>>
    /\ UNCHANGED edge

\* from('members').select('*').eq('email', oldEmail).single() answers: an
\* error when no row matches or the request fails
SelectMember ==
    /\ profile.pc = "selectMember"
    /\ \E fault \in BOOLEAN :
         LET ok == ~fault /\ memberRow.email = profile.oldEmail
         IN  profile' = [AfterSelectMember(profile, ok, memberRow) EXCEPT
                            !.calls = Append(@, Request("selectMember", profile.oldEmail, ok))]
    /\ UNCHANGED <<authUser, memberRow, login>>
    /\ UNCHANGED edge

\* auth.updateUser({ password: newPassword }) answers
UpdatePassword ==
    /\ profile.pc = "updatePassword"
    /\ \E fault \in BOOLEAN :
         LET ans == IF fault THEN "error"
                    ELSE IF profile.newPassword = authUser.password THEN "same_password"
                    ELSE "ok"
         IN  /\ profile' = [AfterUpdatePassword(profile, ans) EXCEPT
                               !.calls = Append(@, Request("updatePassword",
                                                           profile.newPassword, ans = "ok"))]
             /\ authUser' = IF ans = "ok"
                            THEN [authUser EXCEPT !.password = profile.newPassword]
                            ELSE authUser
    /\ UNCHANGED <<memberRow, login>>
    /\ UNCHANGED edge

\* auth.updateUser({ email: newEmail }) answers
UpdateEmail ==
    /\ profile.pc = "updateEmail"
    /\ \E ok \in BOOLEAN :
         /\ profile' = [AfterUpdateEmail(profile, ok) EXCEPT
                           !.calls = Append(@, Request("updateEmail", profile.newEmail, ok))]
         /\ authUser' = IF ok THEN [authUser EXCEPT !.email = profile.newEmail]
                        ELSE authUser
    /\ UNCHANGED <<memberRow, login>>
    /\ UNCHANGED edge

\* from('members').update(updatedData).eq('email', oldEmail) answers
UpdateMember ==
    /\ profile.pc = "updateMember"
    /\ \E ok \in BOOLEAN :
         /\ profile' = [AfterUpdateMember(profile, ok) EXCEPT
                           !.calls = Append(@, Request("updateMember", profile.oldEmail, ok))]
         /\ memberRow' = IF ok
                         THEN RowAfterUpdate(memberRow, updatedData(profile), profile.oldEmail)
                         ELSE memberRow
    /\ UNCHANGED <<authUser, login>>
    /\ UNCHANGED edge

\* the Login component as mounted: empty fields, not loading
Mounted == [memberId |-> <<>>, password |-> "", isLoading |-> FALSE, pc |-> "idle",
            clean |-> <<>>, member |-> "none", tempEmail |-> <<>>, error |-> "none",
            toast |-> "none", location |-> "/login", calls |-> <<>>]

\* longest member ID typed into the form
MaxIdLen == 3

\* what can be typed into the member ID input
TypedIds == UNION {[1..n -> IdChars] : n \in 0..MaxIdLen}

\* const cleanMemberId = memberId.toUpperCase().trim()
cleanMemberId(memberId) == trim(toUpperCase(memberId))

\* `${cleanMemberId.toLowerCase()}@temp.pwaburton.org`
tempEmail(clean) == toLowerCase(clean) \o TEMP_DOMAIN

\* catch and finally of handleLogin: the failure toast, isLoading false
Caught(lg, msg) ==
    [lg EXCEPT !.error = msg, !.toast = "Login failed", !.isLoading = FALSE, !.pc = "idle"]

\* faulty handleLogin: the check of the looked-up member is missing
AfterMemberLookup_NoMemberCheck(lg, ans) ==
    IF ans = "error" THEN Caught([lg EXCEPT !.member = "none"], "memberError")
    ELSE [lg EXCEPT !.member = IF ans = "member" THEN "member" ELSE "none",
                    !.tempEmail = tempEmail(lg.clean), !.pc = "signIn"]

\* handleLogin after the member lookup answered: "member", "none" or "error"
AfterMemberLookup(lg, ans) ==
    CASE ans = "error" -> Caught([lg EXCEPT !.member = "none"], "memberError")
      [] ans = "none" ->
           Caught([lg EXCEPT !.member = "none"],
                  "Invalid Member ID. Please check your credentials.")
      [] OTHER -> [lg EXCEPT !.member = "member", !.tempEmail = tempEmail(lg.clean),
                             !.pc = "signIn"]

\* handleLogin after signInWithPassword answered: "ok", "invalid" (the error
\* 'Invalid login credentials') or "error"
AfterSignIn(lg, ans) ==
    CASE ans = "ok" -> [lg EXCEPT !.toast = "Login successful",
                                  !.location = "/admin/profile",
                                  !.isLoading = FALSE, !.pc = "idle"]
      [] ans = "invalid" ->
           Caught(lg, "Invalid Member ID or password. Please check your credentials.")
      [] OTHER -> Caught(lg, "signInError")

\* the locals of handleLogin and the log of its requests are gone once the
\* attempt is over; the model keeps them until the form is edited
Edited(lg) ==
    [lg EXCEPT !.clean = <<>>, !.member = "none", !.tempEmail = <<>>, !.calls = <<>>]

\* onChange of the member ID input (disabled while loading)
setMemberId ==
    /\ login.location = "/login" /\ ~login.isLoading
    /\ \E typed \in TypedIds :
         login' = [Edited(login) EXCEPT !.memberId = toUpperCase(typed)]
    /\ UNCHANGED <<authUser, memberRow, profile>>
    /\ UNCHANGED edge

\* onChange of the password input (disabled while loading)
setPassword ==
    /\ login.location = "/login" /\ ~login.isLoading
    /\ \E typed \in Passwords \cup {""} : login' = [Edited(login) EXCEPT !.password = typed]
    /\ UNCHANGED <<authUser, memberRow, profile>>
    /\ UNCHANGED edge

\* the form is submitted (both inputs are required, the button is disabled
\* while loading): handleLogin runs to its first await
handleLogin ==
    /\ login.location = "/login" /\ ~login.isLoading
    /\ login.memberId # <<>> /\ login.password # ""
    /\ login' = [login EXCEPT !.isLoading = TRUE, !.pc = "memberLookup",
                              !.clean = cleanMemberId(login.memberId),
                              !.member = "none", !.tempEmail = <<>>, !.error = "none",
                              !.toast = "none", !.calls = <<>>]
    /\ UNCHANGED <<authUser, memberRow, profile>>
    /\ UNCHANGED edge

\* from('members').select(...).eq('member_number', cleanMemberId).maybeSingle()
\* answers
MemberLookup ==
    /\ login.pc = "memberLookup"
    /\ \E fault \in BOOLEAN :
         LET ans == IF fault THEN "error"
                    ELSE IF memberRow.member_number = login.clean THEN "member"
                    ELSE "none"
         IN  login' = [AfterMemberLookup(login, ans) EXCEPT
                          !.calls = Append(@, Request("memberLookup", login.clean,
                                                      ans # "error"))]
    /\ UNCHANGED <<authUser, memberRow, profile>>
    /\ UNCHANGED edge

\* supabase.auth.signInWithPassword({ email: tempEmail, password }) answers
SignIn ==
    /\ login.pc = "signIn"
    /\ \E fault \in BOOLEAN :
         LET ans == IF fault THEN "error"
                    ELSE IF authUser.email = login.tempEmail
                            /\ authUser.password = login.password THEN "ok"
                    ELSE "invalid"
         IN  login' = [AfterSignIn(login, ans) EXCEPT
                          !.calls = Append(@, Request("signIn", login.tempEmail, ans = "ok"))]
    /\ UNCHANGED <<authUser, memberRow, profile>>
    /\ UNCHANGED edge

\* the client is not running
InitClientIdle ==
    /\ authUser = [email |-> TEMP_EMAIL, password |-> "p"]
    /\ memberRow = [member_number |-> MEMBER_NUMBER, email |-> TEMP_EMAIL,
                    email_verified |-> FALSE, password_changed |-> FALSE,
                    default_password_hash |-> "hash", profile_updated |-> FALSE,
                    updated_at |-> "before"]
    /\ profile = NoCall
    /\ login = [Mounted EXCEPT !.location = "none"]


-----------------------------------------------------------------------------
(* The specification of one invocation against every remote state. *)

Envs == {[supabase |-> TRUE, pat |-> TRUE], [supabase |-> FALSE, pat |-> TRUE],
         [supabase |-> TRUE, pat |-> FALSE]}

\* every ref is absent or points at its own commit
RemoteRefs ==
    {[r \in RepoIds |-> [b \in Branches |->
          IF <<r, b>> \in S THEN InitialSha(r, b) ELSE NoSha]] :
       S \in SUBSET (RepoIds \X Branches)}

\* the master repository's default branch is main, the custom one's varies
DefaultBranches == {[r \in RepoIds |-> IF r = "M" THEN "main" ELSE b] : b \in Branches}

InitHandlers ==
    /\ logs = <<>>
    /\ variant = Idle("none")
    /\ req = Idle(NoReq)
    /\ pc = Idle("idle")
    /\ user = Idle(NoUser)
    /\ loc = Idle(NoLoc)
    /\ err = Idle(NoErr)
    /\ resp = Idle(NoResp)
    /\ calls = Idle(<<>>)

InitUrlIdle ==
    /\ urlIn = <<>>
    /\ urlOut = Null
    /\ urlPc = "idle"

Init ==
    /\ env \in Envs
    /\ refs \in RemoteRefs
    /\ defaultBranch \in DefaultBranches
    /\ live = {"p1"}
    /\ InitHandlers
    /\ InitUrlIdle
    /\ InitClientIdle

Step(p) ==
    \/ Receive(p)
    \/ GetUser(p)
    \/ RepoCheck(p)
    \/ InsertLog(p)
    \/ MasterBranch(p)
    \/ CustomBranch(p)
    \/ ReadSource(p)
    \/ CheckDest(p)
    \/ CreateRef(p)
    \/ PatchRef(p)
    \/ ErrorLog(p)

Next == \E p \in Procs : Step(p)

Spec == Init /\ [][Next]_vars

-----------------------------------------------------------------------------
(* The specification of two invocations that run concurrently against the   *)
(* same pair of repositories: the same handlers, with authorized requests   *)
(* that name the custom and the master repository.                          *)

RaceVariants == {"hardcoded", "defaultA", "defaultB"}

RaceBodies == [operation : {"pull", "push"}, customUrl : {U_CUSTOM_GIT},
               masterUrl : {MASTER_REPO, U_CUSTOM}]

\* the fields of the body of a request
BodyOfReq(rq) ==
    [operation |-> rq.operation, customUrl |-> rq.customUrl, masterUrl |-> rq.masterUrl]

InRaceScope ==
    \A p \in Procs :
        pc[p] = "idle" \/
            /\ variant[p] \in RaceVariants
            /\ req[p].method = "POST"
            /\ req[p].auth
            /\ BodyOfReq(req[p]) \in RaceBodies \cup {NoBody}

\* both branches of both repositories exist, or the custom repository has
\* no branch yet
RaceRefs ==
    {[r \in RepoIds |-> [b \in Branches |->
          IF r = "M" \/ full THEN InitialSha(r, b) ELSE NoSha]] : full \in BOOLEAN}

InitRace ==
    /\ env = [supabase |-> TRUE, pat |-> TRUE]
    /\ refs \in RaceRefs
    /\ defaultBranch \in DefaultBranches
    /\ live = Procs
    /\ InitHandlers
    /\ InitUrlIdle
    /\ InitClientIdle

\* the steps of the handlers, for the requests in scope
RaceStep(p) ==
    \/ Receive(p) /\ InRaceScope'
    \/ GetUser(p) /\ InRaceScope'
    \/ RepoCheck(p) /\ InRaceScope'
    \/ InsertLog(p) /\ InRaceScope'
    \/ MasterBranch(p) /\ InRaceScope'
    \/ CustomBranch(p) /\ InRaceScope'
    \/ ReadSource(p) /\ InRaceScope'
    \/ CheckDest(p) /\ InRaceScope'
    \/ CreateRef(p) /\ InRaceScope'
    \/ PatchRef(p) /\ InRaceScope'
    \/ ErrorLog(p) /\ InRaceScope'

NextRace == \E p \in Procs : RaceStep(p)

SpecRace == InitRace /\ [][NextRace]_vars

-----------------------------------------------------------------------------
(* The specification of one invocation whose awaits are all answered. *)

\* every await of an invocation is answered at last: the request resolves or
\* is rejected.  Nothing makes a request arrive
Awaited(p) ==
    \/ GetUser(p)
    \/ RepoCheck(p)
    \/ InsertLog(p)
    \/ MasterBranch(p)
    \/ CustomBranch(p)
    \/ ReadSource(p)
    \/ CheckDest(p)
    \/ CreateRef(p)
    \/ PatchRef(p)
    \/ ErrorLog(p)

\* one invocation against the remote states of the concurrent specification
InitLive ==
    /\ env \in Envs
    /\ refs \in RaceRefs
    /\ defaultBranch \in DefaultBranches
    /\ live = {"p1"}
    /\ InitHandlers
    /\ InitUrlIdle
    /\ InitClientIdle

SpecLive == InitLive /\ [][Next]_vars /\ \A p \in Procs : WF_vars(Awaited(p))

-----------------------------------------------------------------------------
(* The specification of the URL parser applied to one URL. *)

PathChars == {"a", "/", ".", "?"}

RECURSIVE SeqsUpTo(_, _)
SeqsUpTo(S, n) ==
    IF n = 0 THEN {<<>>}
    ELSE LET shorter == SeqsUpTo(S, n - 1)
         IN  shorter \cup {Append(s, c) : s \in {t \in shorter : Len(t) = n - 1}, c \in S}

UrlHeads == {HTTPS \o GITHUB_COM, HTTPS \o GITLAB_COM,
             HTTPS \o EVIL_COM \o SLASH \o GITHUB_COM, GITHUB_COM}

UrlTails == {<<>>, DOT_GIT}

TestUrls ==
    {h \o p \o t : h \in UrlHeads, p \in SeqsUpTo(PathChars, MaxPathLen), t \in UrlTails}
      \cup CustomUrls \cup MasterUrls


InitUrl ==
    /\ env = [supabase |-> TRUE, pat |-> TRUE]
    /\ refs \in {[r \in RepoIds |-> [b \in Branches |-> NoSha]]}
    /\ defaultBranch \in {[r \in RepoIds |-> "main"]}
    /\ live = {}
    /\ InitHandlers
    /\ urlIn \in TestUrls
    /\ urlOut = Null
    /\ urlPc = "ready"
    /\ InitClientIdle

Validate ==
    /\ urlPc = "ready"
    /\ urlOut' = validateGitHubUrl(urlIn)
    /\ urlPc' = "done"
    /\ UNCHANGED <<env, refs, defaultBranch, logs, live, variant, req, pc, user, loc,
                   err, resp, calls, urlIn, client>>

NextUrl == Validate

SpecUrl == InitUrl /\ [][NextUrl]_vars

-----------------------------------------------------------------------------
(* The specifications of the web client: one call of updateProfileAndEmail  *)
(* against every state of the member, and the Login page used any number of *)
(* times.                                                                   *)

\* the edge functions are not running
InitEdgeIdle ==
    /\ env = [supabase |-> TRUE, pat |-> TRUE]
    /\ refs = [r \in RepoIds |-> [b \in Branches |-> NoSha]]
    /\ defaultBranch = [r \in RepoIds |-> "main"]
    /\ live = {}
    /\ InitHandlers
    /\ InitUrlIdle

InitProfile ==
    /\ InitEdgeIdle
    /\ authUser \in [email : {TEMP_EMAIL, HOME_EMAIL}, password : {"p"}]
    /\ memberRow \in MemberRows
    /\ profile = NoCall
    /\ login = [Mounted EXCEPT !.location = "none"]

NextProfile ==
    \/ updateProfileAndEmail
    \/ AuthGetUser
    \/ SelectMember
    \/ UpdatePassword
    \/ UpdateEmail
    \/ UpdateMember

SpecProfile == InitProfile /\ [][NextProfile]_vars

InitLogin ==
    /\ InitEdgeIdle
    /\ authUser \in [email : {TEMP_EMAIL, HOME_EMAIL}, password : Passwords]
    /\ memberRow \in {r \in MemberRows : r.email = authUser.email /\ ~r.email_verified
                                         /\ ~r.password_changed}
    /\ profile = NoCall
    /\ login = Mounted

NextLogin ==
    \/ setMemberId
    \/ setPassword
    \/ handleLogin
    \/ MemberLookup
    \/ SignIn

\* a request to the backend is answered eventually
SpecLogin == InitLogin /\ [][NextLogin]_vars /\ WF_vars(MemberLookup) /\ WF_vars(SignIn)

-----------------------------------------------------------------------------
(* Vocabulary of the properties. *)

\* the indices of the calls of p that satisfy P
CallsWhere(p, P(_)) == {i \in DOMAIN calls[p] : P(calls[p][i])}

IsMutating(c) == c.svc = "github" /\ c.method \in {"POST", "PATCH"}
IsCreate(c) == c.svc = "github" /\ c.method = "POST"
IsForceUpdate(c) == c.svc = "github" /\ c.method = "PATCH"
IsGitHub(c) == c.svc = "github"
IsIdentity(c) == c.svc = "identity"
IsSourceRead(c) == c.step = "readSource"
IsExistenceCheck(c) == c.step = "checkDest"

\* the answer the read of the source ref got, when it was issued
SourceReadStatus(p) ==
    LET is == CallsWhere(p, IsSourceRead)
    IN  IF is = {} THEN 0 ELSE calls[p][CHOOSE i \in is : TRUE].status

\* the SHA the read of the source ref returned
SourceReadValue(p) ==
    LET is == CallsWhere(p, IsSourceRead)
    IN  IF is = {} THEN NoSha ELSE calls[p][CHOOSE i \in is : TRUE].value

\* the answer the existence check of the Reference Writer got
ExistenceStatus(p) ==
    LET is == CallsWhere(p, IsExistenceCheck)
    IN  IF is = {} THEN 0 ELSE calls[p][CHOOSE i \in is : TRUE].status

NotFoundMessage(op) ==
    IF op = "pull" THEN "Master branch reference not found"
    ELSE "Custom branch reference not found"

-----------------------------------------------------------------------------
(* Properties. *)

\* C1: in the default-branch orchestrator, when the read of the source ref
\* (master's on pull, custom's on push) is answered 404, the invocation ends
\* with the error '... branch reference not found' and a 400, and it issues
\* no POST and no PATCH to any repository; no variant writes after a 404 on
\* its source ref.
C1_AbortOnAbsentSource ==
    \A p \in Procs :
        SourceReadStatus(p) = 404 =>
            /\ CallsWhere(p, IsMutating) = {}
            /\ pc[p] \in {"done", "errorLog"}
            /\ pc[p] = "done" => resp[p] = Failure
            /\ variant[p] \in DefaultVariants =>
                 /\ err[p].msg = NotFoundMessage(req[p].operation)
                 /\ resp[p] = Failure
                 /\ LET c == calls[p][CHOOSE i \in CallsWhere(p, IsSourceRead) : TRUE]
                    IN  c.path = IF req[p].operation = "pull" THEN loc[p].masterPath
                                 ELSE loc[p].customPath

\* a pull of a default-branch variant whose master ref was absent has ended
C1_Witness ==
    \E p \in Procs :
        /\ variant[p] \in DefaultVariants
        /\ req[p].operation = "pull"
        /\ SourceReadStatus(p) = 404
        /\ pc[p] = "done"

\* C3: once the existence check of updateGitHubReference found the branch
\* absent, the writer issues one POST for refs/heads/<branch> with the target
\* SHA and no PATCH; once it found the branch, one PATCH with force: true and
\* the target SHA and no POST.
C3_WriterCreatesOrForceUpdates ==
    \A p \in Procs :
        LET l == loc[p]
            writes == CallsWhere(p, IsMutating)
            TheWrite == calls[p][CHOOSE i \in writes : TRUE]
            OnTarget(c) == c.path = l.dstPath /\ c.branch = l.dstBranch
                           /\ c.sha = SourceReadValue(p) /\ c.sha # NoSha
        IN  /\ l.existingRef.kind = "null" =>
                 \/ pc[p] = "createRef" /\ writes = {}
                 \/ /\ pc[p] = "done"
                    /\ Cardinality(writes) = 1
                    /\ IsCreate(TheWrite) /\ OnTarget(TheWrite)
            /\ l.existingRef.kind = "value" =>
                 \/ pc[p] = "patchRef" /\ writes = {}
                 \/ /\ pc[p] = "done"
                    /\ Cardinality(writes) = 1
                    /\ IsForceUpdate(TheWrite) /\ TheWrite.force /\ OnTarget(TheWrite)

\* the writer found the branch absent and has issued its create call
C3_Witness ==
    \E p \in Procs :
        /\ loc[p].existingRef.kind = "null"
        /\ pc[p] = "done"
        /\ CallsWhere(p, IsCreate) # {}

\* C6: getGitHubReference yields null for a 404 without raising, raises
\* 'Failed to get reference' with the response text for every other failure
\* status, yields the ref for a 2xx, and issues one GET per call.
C6_ReaderResult ==
    \A p \in Procs :
        LET Agrees(ref, is) ==
                ref # Unset =>
                  /\ Cardinality(is) = 1
                  /\ LET c == calls[p][CHOOSE i \in is : TRUE]
                     IN  /\ c.method = "GET"
                         /\ c.status = 404 =>
                              ref = NullRef /\ err[p].msg # "Failed to get reference"
                         /\ c.status \in {200, 201} =>
                              ref = [kind |-> "value", sha |-> c.value] /\ c.value # NoSha
                         /\ c.status \notin {200, 201, 404} =>
                              /\ ref = ThrownRef
                              /\ err[p] = [msg |-> "Failed to get reference", body |-> c.body]
                              /\ c.body # "none"
        IN  variant[p] \in DefaultVariants =>
              /\ Agrees(loc[p].srcRef, CallsWhere(p, IsSourceRead))
              /\ Agrees(loc[p].existingRef, CallsWhere(p, IsExistenceCheck))
              /\ loc[p].srcRef = Unset => CallsWhere(p, IsSourceRead) = {}
              /\ loc[p].existingRef = Unset => CallsWhere(p, IsExistenceCheck) = {}

\* the reader answered null to the writer's existence check, and nothing raised
C6_Witness ==
    \E p \in Procs :
        /\ variant[p] \in DefaultVariants
        /\ ExistenceStatus(p) = 404
        /\ loc[p].existingRef = NullRef
        /\ err[p] = NoErr

\* the rows of git_sync_logs that invocation p inserted
RowsOf(p) == {i \in DOMAIN logs : logs[i].inv = p}

\* C2: every finished invocation has inserted exactly one row, whose status
\* is 'completed' iff the response is the 200 success and 'failed' (with
\* operation_type 'error') iff the response is the 400.
C2_OneRowPerInvocation ==
    \A p \in Procs :
        (pc[p] = "done" /\ req[p].method = "POST") =>
            /\ Cardinality(RowsOf(p)) = 1
            /\ LET row == logs[CHOOSE i \in RowsOf(p) : TRUE]
               IN  /\ resp[p] = Success <=> row.status = "completed"
                   /\ resp[p] = Failure <=>
                        (row.status = "failed" /\ row.operation_type = "error")

\* the write step found no destination ref: the existence check was answered
\* 404, or the PATCH was refused because the ref does not exist
DestinationAbsent(p) ==
    \/ ExistenceStatus(p) = 404
    \/ \E i \in CallsWhere(p, IsForceUpdate) : calls[p][i].status = 422

\* C4: a pull that read the master ref and found the custom ref absent issues
\* exactly one create call to the custom repository and no POST or PATCH to
\* the master repository.
C4_PullCreatesAbsentCustomRef ==
    \A p \in Procs :
        ( /\ req[p].operation = "pull"
          /\ SourceReadStatus(p) = 200
          /\ DestinationAbsent(p)
          /\ pc[p] # "createRef" ) =>
            /\ Cardinality({i \in CallsWhere(p, IsCreate) :
                              calls[p][i].path = loc[p].customPath}) = 1
            /\ loc[p].masterPath # loc[p].customPath =>
                 {i \in CallsWhere(p, IsMutating) :
                    calls[p][i].path = loc[p].masterPath} = {}

\* C5 as stated: a request without Authorization header is answered 400 and
\* no external call of any kind precedes the response.
C5_NoCallBeforeMissingAuthResponse ==
    \A p \in Procs :
        (req[p].method = "POST" /\ ~req[p].auth /\ pc[p] = "done") =>
            resp[p] = Failure /\ calls[p] = <<>>

\* C5 as amended: a request without Authorization header is answered 400, and
\* neither the identity lookup nor any GitHub request is made; the only call
\* that may precede the response is the one insert of the failure row by the
\* catch block of the logging variants.
C5_MissingAuthIs400WithoutLookup ==
    \A p \in Procs :
        (req[p].method = "POST" /\ ~req[p].auth) =>
            /\ pc[p] \in {"errorLog", "done"}
            /\ pc[p] = "done" => resp[p] = Failure
            /\ CallsWhere(p, IsIdentity) = {}
            /\ CallsWhere(p, IsGitHub) = {}
            /\ Len(calls[p]) <= 1
            /\ \A i \in DOMAIN calls[p] :
                 calls[p][i].step = "errorLog" /\ variant[p] \in LoggingCatch

\* a request without Authorization header was answered by a logging variant
\* after its failure row insert
C5_Witness ==
    \E p \in Procs :
        /\ req[p].method = "POST" /\ ~req[p].auth
        /\ variant[p] \in LoggingCatch
        /\ pc[p] = "done" /\ resp[p] = Failure
        /\ Len(calls[p]) = 1

\* url is (https://)github.com/{owner}/{repo} optionally followed by .git,
\* owner and repo being non-empty and free of '/', '?' and '#'
WellFormedRepoUrl(url) ==
    LET u == IF StartsAt(url, 1, HTTPS) THEN SubSeq(url, Len(HTTPS) + 1, Len(url)) ELSE url
        rest == SubSeq(u, Len(GITHUB_SLASH) + 1, Len(u))
        OwnerRepo(t) ==
            \E k \in 2..(Len(t) - 1) :
                /\ t[k] = "/"
                /\ \A j \in (1..Len(t)) \ {k} : t[j] \notin {"/", "?", "#"}
    IN  /\ StartsAt(u, 1, GITHUB_SLASH)
        /\ \/ OwnerRepo(rest)
           \/ /\ Len(rest) > Len(DOT_GIT)
              /\ StartsAt(rest, Len(rest) - Len(DOT_GIT) + 1, DOT_GIT)
              /\ OwnerRepo(SubSeq(rest, 1, Len(rest) - Len(DOT_GIT)))

\* C7: validateGitHubUrl returns null for every URL that is not
\* github.com/{owner}/{repo}[.git], and {owner: 'a', repo: 'b'} for
\* https://github.com/a/b.git.
C7_ParserRejectsAllButOwnerRepo ==
    urlPc = "done" =>
        /\ ~WellFormedRepoUrl(urlIn) => urlOut = Null
        /\ urlIn = U_CUSTOM_GIT => urlOut = [owner |-> CUSTOM_OWNER, repo |-> CUSTOM_NAME]

\* a GitHub or log call that failed, the 404 of the existence check apart
IsFailedStep(c) ==
    /\ c.svc \in {"github", "log"}
    /\ c.step # "errorLog"
    /\ c.status \notin {200, 201}
    /\ ~(c.step = "checkDest" /\ c.status = 404)

\* C8: the 200 success of a pull or push is returned only after the source
\* ref was read and the destination ref write succeeded, and an invocation
\* with a failed step is answered 400.
C8_SuccessOnlyAfterReadAndWrite ==
    \A p \in Procs :
        variant[p] # "verify" =>
            /\ (req[p].operation \in {"pull", "push"} /\ resp[p] = Success) =>
                 /\ SourceReadStatus(p) = 200
                 /\ \E i \in CallsWhere(p, IsMutating) : calls[p][i].status \in {200, 201}
            /\ (pc[p] = "done" /\ CallsWhere(p, IsFailedStep) # {}) => resp[p] = Failure

\* the request fails validation: no pull/push operation, or a URL the
\* variant takes that is missing or no GitHub repository URL
InvalidRequest(v, rq) ==
    \/ rq.operation \notin {"pull", "push"}
    \/ ~WellFormedRepoUrl(rq.customUrl)
    \/ v # "hardcoded" /\ ~WellFormedRepoUrl(rq.masterUrl)

\* C9: a request that fails validation is answered 400 and causes no POST or
\* PATCH to any repository.
C9_ValidationErrorsAre400 ==
    \A p \in Procs :
        ( /\ pc[p] = "done"
          /\ req[p].method = "POST"
          /\ variant[p] # "verify"
          /\ InvalidRequest(variant[p], req[p]) ) =>
            resp[p] = Failure /\ CallsWhere(p, IsMutating) = {}

\* the repositories the request names, as the variant parses them
NamedMaster(p) ==
    IF variant[p] = "hardcoded" THEN PathOf(RegexMatch(MASTER_REPO, FALSE))
    ELSE PathOf(ParseRepoUrl(variant[p], req[p].masterUrl))

NamedCustom(p) ==
    IF variant[p] = "hardcoded" THEN PathOf(RegexMatch(req[p].customUrl, FALSE))
    ELSE PathOf(ParseRepoUrl(variant[p], req[p].customUrl))

NamedSource(p) == IF req[p].operation = "pull" THEN NamedMaster(p) ELSE NamedCustom(p)

NamedDestination(p) == IF req[p].operation = "pull" THEN NamedCustom(p) ELSE NamedMaster(p)

\* C10 as stated: no invocation issues a POST or PATCH to the source
\* repository of its operation.
C10_NeverWritesSourceRepository ==
    \A p \in Procs :
        \A i \in CallsWhere(p, IsMutating) : calls[p][i].path # NamedSource(p)

\* C10 as amended: on pull the SHA is read from master and written to custom,
\* on push it is read from custom and written to master; an invocation issues
\* at most one POST or PATCH, to the destination and with the SHA it read; it
\* issues none to the source repository when the two URLs name different
\* repositories, and the source ref still points at the SHA that was read.
C10_DirectionOfSync ==
    \A p \in Procs :
        CallsWhere(p, IsSourceRead) # {} =>
            /\ \A i \in CallsWhere(p, IsSourceRead) : calls[p][i].path = NamedSource(p)
            /\ Cardinality(CallsWhere(p, IsMutating)) <= 1
            /\ \A i \in CallsWhere(p, IsMutating) :
                 /\ calls[p][i].path = NamedDestination(p)
                 /\ calls[p][i].sha = SourceReadValue(p)
                 /\ SourceReadStatus(p) = 200
                 /\ NamedSource(p) # NamedDestination(p) =>
                      calls[p][i].path # NamedSource(p)
            /\ SourceReadStatus(p) = 200 =>
                 /\ SourceReadValue(p) # NoSha
                 /\ refs[RepoOf(NamedSource(p))][loc[p].srcBranch] = SourceReadValue(p)

\* a push between two different repositories has written the master
\* repository and succeeded
C10_Witness ==
    \E p \in Procs :
        /\ req[p].operation = "push"
        /\ resp[p] = Success
        /\ SourceReadStatus(p) = 200
        /\ NamedSource(p) # NamedDestination(p)
        /\ \E i \in CallsWhere(p, IsMutating) :
             calls[p][i].path = NamedMaster(p) /\ calls[p][i].status = 200

-----------------------------------------------------------------------------
(* Properties of concurrent invocations. *)

IsCompletedWrite(c) == IsMutating(c) /\ c.status \in {200, 201}

\* p is a pull and q a push that name the same two, different, repositories
PullAndPushOfOnePair(p, q) ==
    /\ req[p].operation = "pull"
    /\ req[q].operation = "push"
    /\ NamedMaster(p) = NamedMaster(q)
    /\ NamedCustom(p) = NamedCustom(q)
    /\ NamedMaster(p) # NamedCustom(p)

WritesTo(r, b) ==
    UNION {{<<p, i>> : i \in {k \in CallsWhere(p, IsCompletedWrite) :
                                   /\ RepoOf(calls[p][k].path) = r
                                   /\ calls[p][k].branch = b}} : p \in Procs}

-----------------------------------------------------------------------------
(* Properties of logging, configuration and preflight. *)

\* the insert of p at the given step was refused by the log store
InsertFailedAt(p, step) ==
    \E i \in DOMAIN calls[p] :
        calls[p][i].svc = "log" /\ calls[p][i].step = step /\ calls[p][i].status # 201

\* the errors the handlers raise for a refused insert of the success row
LogErrors == {"Failed to create operation log", "logError"}

\* C12: a failure of the git_sync_logs insert, of the success row or of the
\* failure row, does not change the response: the response never reports the
\* log error, and a sync whose write succeeded is answered 200 even when the
\* insert of its success row failed.
C12_LogFailureNeverChangesResponse ==
    \A p \in Procs :
        pc[p] = "done" =>
            /\ err[p].msg \notin LogErrors
            /\ (InsertFailedAt(p, "insertLog") /\ CallsWhere(p, IsCompletedWrite) # {}) =>
                 resp[p] = Success
            /\ (InsertFailedAt(p, "errorLog") /\ ~InsertFailedAt(p, "insertLog")) =>
                 resp[p] = Failure /\ err[p].msg # "none"

C14_PreflightAnsweredWithoutEffect ==
    \A p \in Procs :
        req[p].method = "OPTIONS" =>
            /\ pc[p] = "done"
            /\ resp[p].status = 200 /\ resp[p].cors /\ resp[p] = Preflight
            /\ err[p] = NoErr
            /\ calls[p] = <<>>
            /\ user[p] = NoUser
            /\ RowsOf(p) = {}

\* a preflight without Authorization header was answered by a handler whose
\* environment lacks a secret
C14_Witness ==
    \E p \in Procs :
        /\ req[p].method = "OPTIONS"
        /\ ~req[p].auth
        /\ ~env.supabase \/ ~env.pat
        /\ resp[p] = Preflight

\* C15: every request sent to GitHub carries the GITHUB_PAT of the
\* environment as its credential and never the caller's bearer token; the
\* caller's token is handed to the identity lookup only.
C15_JwtNeverSentToGitHub ==
    \A p \in Procs :
        \A i \in DOMAIN calls[p] :
            LET c == calls[p][i]
            IN  /\ IsGitHub(c) => c.cred = "GITHUB_PAT" /\ env.pat /\ c.cred # BearerOf(req[p])
                /\ c.cred = BearerOf(req[p]) => IsIdentity(c)
                /\ IsIdentity(c) => c.cred = "jwt"

\* an authorized invocation has looked the caller up and has written a ref
C15_Witness ==
    \E p \in Procs :
        /\ req[p].auth
        /\ CallsWhere(p, IsIdentity) # {}
        /\ CallsWhere(p, IsCompletedWrite) # {}

-----------------------------------------------------------------------------
(* Properties of the order of the steps. *)

\* the calls of the ref read/write orchestration
OrchestrationSteps ==
    {"masterBranch", "customBranch", "readSource", "checkDest", "createRef", "patchRef"}

\* the place of a call in the control flow: identity lookup, access
\* verification, orchestration, audit log write
StagePlace(step) ==
    CASE step = "getUser" -> 1
      [] step = "repoCheck" -> 2
      [] step \in OrchestrationSteps -> 3
      [] OTHER -> 4

\* C16: the calls of an invocation follow the order identity lookup, access
\* verification, ref read/write orchestration, audit log write; a 'completed'
\* row is in git_sync_logs only once the orchestration of its invocation has
\* finished.
C16_LogAfterOrchestration ==
    \A p \in Procs :
        /\ \A i, j \in DOMAIN calls[p] :
             i < j => StagePlace(calls[p][i].step) <= StagePlace(calls[p][j].step)
        /\ (\E i \in RowsOf(p) : logs[i].status = "completed") =>
             pc[p] \notin OrchestrationSteps

\* a request to GitHub that failed, the 404 of the existence check apart
IsFailedGitHubCall(c) ==
    /\ IsGitHub(c)
    /\ c.status \notin {200, 201}
    /\ ~(c.step = "checkDest" /\ c.status = 404)

\* C17: within an invocation every call is attempted once, and the first
\* failed GitHub request (a 404 of the destination existence check is no
\* failure) is the last GitHub request of the invocation, which is then
\* answered 400.
C17_NoRetryAbortOnFirstFailure ==
    \A p \in Procs :
        /\ \A i, j \in DOMAIN calls[p] :
             i # j => calls[p][i].step # calls[p][j].step
        /\ \A i \in CallsWhere(p, IsFailedGitHubCall) :
             /\ \A j \in DOMAIN calls[p] : j > i => ~IsGitHub(calls[p][j])
             /\ pc[p] \in {"errorLog", "done"}
             /\ pc[p] = "done" => resp[p] = Failure

\* an invocation was answered 400 after its write, the fourth GitHub request
\* or a later one, failed
C17_Witness ==
    \E p \in Procs :
        /\ pc[p] = "done" /\ resp[p] = Failure
        /\ \E i \in CallsWhere(p, IsFailedGitHubCall) :
             /\ IsMutating(calls[p][i])
             /\ Cardinality(CallsWhere(p, IsGitHub)) >= 4

\* the place of a call in the orchestrator: default branch of master, of
\* custom, read of the source ref, existence check of the destination ref,
\* write of the destination ref
OrchestratorPlace(step) ==
    CASE step = "masterBranch" -> 1
      [] step = "customBranch" -> 2
      [] step = "readSource" -> 3
      [] step = "checkDest" -> 4
      [] OTHER -> 5

IsOrchestration(c) == c.step \in OrchestrationSteps

IsDestinationRefCall(c) == c.step \in {"checkDest", "createRef", "patchRef"}

IsBranchResolution(c) == c.step \in {"masterBranch", "customBranch"} /\ c.status = 200

\* the order of the orchestrator's calls in every state
OrchestratorOrder ==
    \A p \in Procs :
        /\ \A i, j \in CallsWhere(p, IsOrchestration) :
             i < j => OrchestratorPlace(calls[p][i].step) < OrchestratorPlace(calls[p][j].step)
        /\ (variant[p] \in DefaultVariants /\ CallsWhere(p, IsSourceRead) # {}) =>
             /\ Cardinality(CallsWhere(p, IsBranchResolution)) = 2
             /\ loc[p].masterBranch \in Branches /\ loc[p].customBranch \in Branches
        /\ CallsWhere(p, IsDestinationRefCall) # {} => SourceReadStatus(p) = 200
        /\ Cardinality(CallsWhere(p, IsMutating)) <= 1
        /\ pc[p] = "done" => resp[p] \in {Preflight, Success, Failure}

\* C18: the orchestrator resolves both default branches before it reads the
\* source ref, reads the source ref before any call to the destination's
\* refs, issues at most one mutating call, and every invocation that has
\* started ends with a response: the success (done) or the 400 (error).
C18_OrchestratorStates ==
    /\ []OrchestratorOrder
    /\ \A p \in Procs :
         (pc[p] # "idle") ~> (pc[p] = "done" /\ resp[p] \in {Preflight, Success, Failure})

\* the orchestrator went through all its states: both branches resolved, the
\* source ref read, the destination ref created, done
C18_Witness ==
    \E p \in Procs :
        /\ variant[p] \in DefaultVariants
        /\ resp[p] = Success
        /\ Cardinality(CallsWhere(p, IsOrchestration)) = 5
        /\ CallsWhere(p, IsCreate) # {}

-----------------------------------------------------------------------------
(* Properties of the branches and of the Reference Writer. *)

IsRefCall(c) == c.step \in {"readSource", "checkDest", "createRef", "patchRef"}

IsFailedMetadata(c) == c.step \in {"masterBranch", "customBranch"} /\ c.status # 200

\* C19: every ref that is read or written is the default branch of its own
\* repository, as the repository metadata gives it; after a failed metadata
\* response no ref is read or written.
C19_DefaultBranchOfEachRepository ==
    \A p \in Procs :
        /\ \A i \in CallsWhere(p, IsRefCall) :
             RepoOf(calls[p][i].path) # "none" =>
                 calls[p][i].branch = defaultBranch[RepoOf(calls[p][i].path)]
        /\ CallsWhere(p, IsFailedMetadata) # {} =>
             CallsWhere(p, IsRefCall) = {} /\ pc[p] \in {"errorLog", "done"}

\* the writer of q ran after the write of p had set the same ref to the same
\* SHA: the existence check of q found the ref at its target SHA
SecondWriterCall(p, q) ==
    /\ p # q
    /\ variant[p] \in DefaultVariants /\ variant[q] \in DefaultVariants
    /\ \E i \in CallsWhere(p, IsCompletedWrite), j \in CallsWhere(q, IsExistenceCheck) :
         /\ calls[p][i].path = calls[q][j].path
         /\ calls[p][i].branch = calls[q][j].branch
         /\ calls[q][j].value = calls[p][i].sha
         /\ SourceReadValue(q) = calls[p][i].sha

\* C20: when the Reference Writer is called again for a repository, branch
\* and SHA that an earlier call has written, it issues the force-update and
\* no create; unless the request itself fails (500) the call succeeds, and
\* the branch exists and points at the target SHA, as after the first call.
C20_WriterIdempotent ==
    \A p, q \in Procs :
        SecondWriterCall(p, q) =>
            /\ CallsWhere(q, IsCreate) = {}
            /\ pc[q] \in {"patchRef", "done"}
            /\ \A i \in CallsWhere(q, IsMutating) :
                 /\ IsForceUpdate(calls[q][i]) /\ calls[q][i].force
                 /\ calls[q][i].sha = SourceReadValue(q)
                 /\ calls[q][i].status \in {200, 500}
                 /\ calls[q][i].status = 200 => resp[q] = Success
            /\ (\A w \in WritesTo(RepoOf(loc[q].dstPath), loc[q].dstBranch) :
                    calls[w[1]][w[2]].sha = SourceReadValue(q)) =>
                 refs[RepoOf(loc[q].dstPath)][loc[q].dstBranch] = SourceReadValue(q)

\* the first call created the branch, the second call force-updated it to
\* the same SHA and both succeeded
C20_Witness ==
    \E p, q \in Procs :
        /\ SecondWriterCall(p, q)
        /\ CallsWhere(p, IsCreate) # {}
        /\ resp[p] = Success /\ resp[q] = Success
        /\ \E i \in CallsWhere(q, IsForceUpdate) : calls[q][i].status = 200
        /\ refs[RepoOf(loc[q].dstPath)][loc[q].dstBranch] = SourceReadValue(q)

-----------------------------------------------------------------------------
(* Properties of the log rows, of the fixed master and of the identity      *)
(* lookup.                                                                  *)

\* C21: every row of git_sync_logs has operation_type pull, push or error and
\* status completed or failed, and its operation_type is error exactly when
\* its status is failed.
C21_RowsAreWellFormed ==
    \A i \in DOMAIN logs :
        /\ logs[i].operation_type \in {"pull", "push", "error"}
        /\ logs[i].status \in {"completed", "failed"}
        /\ logs[i].operation_type = "error" <=> logs[i].status = "failed"

\* every answer a collaborator can give to a request
AnyAnswer ==
    {[status |-> s, body |-> BodyOf(s), value |-> x] :
        s \in {200, 201, 404, 422, 500},
        x \in {"none"} \cup Branches \cup {InitialSha(r, b) : r \in RepoIds, b \in Branches}}

\* what the hardcoded-master handler, suspended at the await `at` with the
\* request rq and the locals l, does when the await is answered r
HardcodedAfter(rq, at, l, r) ==
    CASE at = "repoCheck" -> OnRepoCheck("hardcoded", rq, l, r)
      [] at = "readSource" -> OnReadSource("hardcoded", rq, l, r)
      [] at = "patchRef" -> OnPatchRef("hardcoded", rq, l, r)
      [] at = "insertLog" -> OnInsertLog("hardcoded", rq, l, Ok(r))
      [] OTHER -> Goto(at, l)

\* C22: in the hardcoded-master variant the masterUrl of the body has no
\* influence: at every await, whatever the answer, the handler continues in
\* the same way (same next request, same locals, same response) for every
\* other value of masterUrl, so two requests that differ only in masterUrl
\* issue the same sequence of GitHub calls; and the calls address only the
\* fixed master repository and the repository customUrl names, the ref
\* requests with the master on the side the operation gives it.
C22_MasterUrlHasNoInfluence ==
    \A p \in live :
        variant[p] = "hardcoded" =>
            /\ pc[p] = "getUser" =>
                 \A b \in Bodies, m \in MasterUrls, u \in Users \cup {NoUser} :
                     OnGetUser("hardcoded", WithBody(req[p], [b EXCEPT !.masterUrl = m]),
                               loc[p], u)
                       = OnGetUser("hardcoded", WithBody(req[p], b), loc[p], u)
            /\ \A m \in MasterUrls, r \in AnyAnswer :
                   HardcodedAfter([req[p] EXCEPT !.masterUrl = m], pc[p], loc[p], r)
                     = HardcodedAfter(req[p], pc[p], loc[p], r)
            /\ \A i \in CallsWhere(p, IsGitHub) :
                   LET c == calls[p][i]
                   IN  /\ c.step \in {"repoCheck", "readSource", "patchRef"}
                       /\ c.step = "repoCheck" =>
                            c.path = (IF req[p].operation = "push"
                                      THEN RepoPathOfUrl(MASTER_REPO)
                                      ELSE RepoPathOfUrl(req[p].customUrl))
                       /\ c.step = "readSource" =>
                            c.path = (IF req[p].operation = "pull"
                                      THEN PathOf(RegexMatch(MASTER_REPO, FALSE))
                                      ELSE NamedCustom(p))
                       /\ c.step = "patchRef" =>
                            c.path = (IF req[p].operation = "pull"
                                      THEN NamedCustom(p)
                                      ELSE PathOf(RegexMatch(MASTER_REPO, FALSE)))

\* a hardcoded-master pull that names another master repository in its body
\* and has read the fixed master and written the custom repository
C22_Witness ==
    \E p \in live :
        /\ variant[p] = "hardcoded" /\ req[p].operation = "pull"
        /\ req[p].masterUrl = U_CUSTOM
        /\ resp[p] = Success
        /\ \E i \in CallsWhere(p, IsSourceRead) : calls[p][i].path = RepoPath("M")
        /\ \E i \in CallsWhere(p, IsForceUpdate) :
               calls[p][i].path = RepoPath("C") /\ calls[p][i].status = 200

\* the identity lookup of p has answered
LookupAnswered(p) == CallsWhere(p, IsIdentity) # {} /\ pc[p] # "getUser"

\* C23: an invocation issues a GitHub call only after the identity service
\* resolved its bearer token to a user (the lookup is its first call and it
\* carried the token); when the lookup answers with an error or no user, the
\* invocation issues no GitHub request and answers 400.
C23_NoGitHubCallWithoutUser ==
    \A p \in live :
        /\ CallsWhere(p, IsGitHub) # {} =>
             /\ user[p] \in Users
             /\ IsIdentity(calls[p][1]) /\ calls[p][1].cred = "jwt"
        /\ (LookupAnswered(p) /\ user[p] = NoUser) =>
             /\ CallsWhere(p, IsGitHub) = {}
             /\ pc[p] \in {"errorLog", "done"}
             /\ pc[p] = "done" => resp[p] = Failure

\* a lookup that resolved no user and was answered 400, in a default-branch
\* variant and with a request that would otherwise have synchronised
C23_Witness ==
    \E p \in live :
        /\ variant[p] \in DefaultVariants
        /\ LookupAnswered(p) /\ user[p] = NoUser
        /\ req[p].operation = "pull" /\ req[p].customUrl = U_CUSTOM_GIT
        /\ req[p].masterUrl = MASTER_REPO
        /\ resp[p] = Failure

\* performGitSync of p returned normally for a pull or a push: its write was
\* applied by GitHub
SyncReturned(p) ==
    /\ req[p].operation \in {"pull", "push"}
    /\ CallsWhere(p, IsCompletedWrite) # {}

\* C24: with no concurrent writer, once performGitSync has returned normally
\* for a pull or a push, the destination ref points at the SHA that was read
\* from the source ref, and the source ref and the destination ref are equal.
C24_IsolatedSyncMakesRefsEqual ==
    \A p \in live :
        SyncReturned(p) =>
            LET l == loc[p]
                src == refs[RepoOf(l.srcPath)][l.srcBranch]
                dst == refs[RepoOf(l.dstPath)][l.dstBranch]
            IN  /\ SourceReadStatus(p) = 200
                /\ SourceReadValue(p) # NoSha
                /\ dst = SourceReadValue(p)
                /\ dst = src

\* a sync between two repositories that returned normally and changed the
\* destination: a pull that created the branch of the custom repository, or a
\* push that moved the branch of the master repository
C24_Witness ==
    \E p \in live :
        /\ SyncReturned(p)
        /\ NamedSource(p) # NamedDestination(p)
        /\ resp[p] = Success
        /\ \/ req[p].operation = "pull" /\ CallsWhere(p, IsCreate) # {}
           \/ req[p].operation = "push" /\ CallsWhere(p, IsForceUpdate) # {}
        /\ refs[RepoOf(loc[p].dstPath)][loc[p].dstBranch]
             # InitialSha(RepoOf(loc[p].dstPath), loc[p].dstBranch)

-----------------------------------------------------------------------------
(* Concurrent invocations: the lost update and the check-then-act race. *)

\* p pulls and q pushes between the same two refs, and each read its source
\* ref before the other wrote it: each read the commit the ref pointed at
\* initially
BothReadBeforeEitherWrote(p, q) ==
    /\ PullAndPushOfOnePair(p, q)
    /\ loc[p].srcBranch = loc[q].dstBranch /\ loc[p].dstBranch = loc[q].srcBranch
    /\ SourceReadStatus(p) = 200 /\ SourceReadStatus(q) = 200
    /\ SourceReadValue(p) = InitialSha("M", loc[p].srcBranch)
    /\ SourceReadValue(q) = InitialSha("C", loc[q].srcBranch)

\* C25: when a pull and a push of the same pair of repositories run
\* concurrently and both read their source ref before either writes, nothing
\* stops either of them: whenever both have answered success the two refs
\* have swapped, the custom ref pointing at the commit the master ref
\* pointed at initially and the master ref at the one of the custom ref, and
\* the refs are still not equal.
C25_BothReadingFirstSwapsTheRefs ==
    \A p, q \in Procs :
        (BothReadBeforeEitherWrote(p, q) /\ resp[p] = Success /\ resp[q] = Success) =>
            LET mb == loc[p].srcBranch
                cb == loc[p].dstBranch
            IN  /\ refs["C"][cb] = InitialSha("M", mb)
                /\ refs["M"][mb] = InitialSha("C", cb)
                /\ refs["C"][cb] # refs["M"][mb]
                /\ CallsWhere(p, IsCompletedWrite) # {}
                /\ CallsWhere(q, IsCompletedWrite) # {}

\* the interleaving is reachable: both read, then both wrote, both succeeded
\* and the refs that differed initially are swapped
C25_Witness ==
    \E p, q \in Procs :
        /\ BothReadBeforeEitherWrote(p, q)
        /\ resp[p] = Success /\ resp[q] = Success
        /\ InitialSha("M", loc[p].srcBranch) # InitialSha("C", loc[p].dstBranch)
        /\ refs["C"][loc[p].dstBranch] = InitialSha("M", loc[p].srcBranch)
        /\ refs["M"][loc[q].dstBranch] = InitialSha("C", loc[q].srcBranch)

\* p and q write the same destination branch, both were told by their
\* existence check that it is absent, and both have issued the create
BothCreateAfterAbsent(p, q) ==
    /\ p # q
    /\ loc[p].dstPath = loc[q].dstPath /\ loc[p].dstBranch = loc[q].dstBranch
    /\ ExistenceStatus(p) = 404 /\ ExistenceStatus(q) = 404
    /\ CallsWhere(p, IsCreate) # {} /\ CallsWhere(q, IsCreate) # {}

\* C26: the existence check and the create of the Reference Writer are not
\* atomic.  When two invocations that write the same absent branch were both
\* told that it is absent, both issue the create; GitHub applies at most one
\* of them, and once one is applied the other is refused although the branch
\* now exists: its invocation does not fall back to the force-update and
\* answers 400 'Failed to create reference'.
C26_CheckThenCreateIsNotAtomic ==
    \A p, q \in Procs :
        BothCreateAfterAbsent(p, q) =>
            \A i \in CallsWhere(p, IsCreate), j \in CallsWhere(q, IsCreate) :
                calls[p][i].status = 201 =>
                    /\ calls[q][j].status \in {422, 500}
                    /\ calls[p][i].at > 0 /\ calls[q][j].at = 0
                    /\ RefExists(loc[q].dstPath, loc[q].dstBranch)
                    /\ CallsWhere(q, IsForceUpdate) = {}
                    /\ pc[q] = "done" /\ resp[q] = Failure
                    /\ err[q].msg = "Failed to create reference"

\* both saw the branch absent, both issued the create, the first succeeded
\* and the second was refused as a conflict while the branch exists
C26_Witness ==
    \E p, q \in Procs :
        /\ BothCreateAfterAbsent(p, q)
        /\ resp[p] = Success /\ resp[q] = Failure
        /\ \E i \in CallsWhere(p, IsCreate) : calls[p][i].status = 201
        /\ \E j \in CallsWhere(q, IsCreate) :
               calls[q][j].status = 422 /\ err[q].body = BodyOf(422)
        /\ RefExists(loc[q].dstPath, loc[q].dstBranch)

-----------------------------------------------------------------------------
(* The verify-only variant. *)

\* C27: the verify-only variant never issues a mutating GitHub call.  Its
\* only GitHub request is one GET of the metadata of one repository, the one
\* customUrl names on push and the one masterUrl names otherwise; when it
\* answers success it has inserted a 'completed' row for the operation,
\* although it has read and written no ref.
C27_VerifyOnlyReadsMetadata ==
    \A p \in live :
        variant[p] = "verify" =>
            /\ CallsWhere(p, IsMutating) = {}
            /\ CallsWhere(p, IsRefCall) = {}
            /\ Cardinality(CallsWhere(p, IsGitHub)) <= 1
            /\ \A i \in CallsWhere(p, IsGitHub) :
                   /\ calls[p][i].step = "repoCheck" /\ calls[p][i].method = "GET"
                   /\ calls[p][i].path =
                        RepoPathOfUrl(IF req[p].operation = "push" THEN req[p].customUrl
                                      ELSE req[p].masterUrl)
            /\ resp[p] = Success =>
                   /\ \E i \in CallsWhere(p, IsGitHub) : calls[p][i].status = 200
                   /\ \E k \in RowsOf(p) :
                          logs[k] = Row(req[p].operation, "completed", user[p], p)

\* a verify-only push answered success with its row, after the one
\* GET of the repository
C27_Witness ==
    \E p \in live :
        /\ variant[p] = "verify" /\ req[p].operation = "push"
        /\ req[p].customUrl = U_CUSTOM_GIT
        /\ resp[p] = Success
        /\ \E i \in CallsWhere(p, IsGitHub) : calls[p][i].path = RepoPath("C")
        /\ RowsOf(p) # {}

-----------------------------------------------------------------------------
(* Properties of the web client. *)

\* the place of a request in the order of updateProfileAndEmail
StepRank(step) ==
    CASE step = "getUser" -> 1
      [] step = "selectMember" -> 2
      [] step = "updatePassword" -> 3
      [] step = "updateEmail" -> 4
      [] OTHER -> 5

\* the requests of the call that were issued for step, as indices of its calls
RequestsOf(step) == {i \in DOMAIN profile.calls : profile.calls[i].step = step}

\* the request for step was issued and answered without error
Succeeded(step) == \E i \in RequestsOf(step) : profile.calls[i].ok

\* C28: updateProfileAndEmail issues its requests in the order user lookup,
\* member lookup, password update (only when newPassword is not empty), auth
\* email update, members row update, each at most once.  It stops at the
\* first failure: a failed request is the last one, the call has thrown and
\* the members row is not updated.  What an earlier step changed stays
\* changed: the auth account keeps the new password and the new email
\* although the call threw.
C28_StopsAtFirstFailureWithoutRollback ==
    LET cs == profile.calls
    IN  /\ \A i, j \in DOMAIN cs : i < j => StepRank(cs[i].step) < StepRank(cs[j].step)
        /\ RequestsOf("updatePassword") # {} => profile.newPassword # ""
        /\ (RequestsOf("updateEmail") \cup RequestsOf("updateMember") # {}
              /\ profile.newPassword # "") => Succeeded("updatePassword")
        /\ RequestsOf("updateMember") # {} =>
              (Succeeded("getUser") /\ Succeeded("selectMember"))
        /\ \A i \in DOMAIN cs :
              ~cs[i].ok => (i = Len(cs) /\ profile.pc = "thrown")
        /\ profile.pc = "thrown" =>
              /\ memberRow.updated_at = "before"
              /\ ~Succeeded("updateMember")
              /\ profile.error # "none"
        /\ profile.pc = "returned" => (Succeeded("updateMember") /\ memberRow.updated_at = "now")
        /\ Succeeded("updatePassword") => authUser.password = profile.newPassword
        /\ Succeeded("updateEmail") => authUser.email = profile.newEmail

\* the password was changed, then the email update failed: the call threw,
\* the members row is as before and the account keeps the new password
C28_Witness ==
    /\ profile.pc = "thrown" /\ profile.error = "emailError"
    /\ Succeeded("updatePassword")
    /\ authUser.password = "q"
    /\ memberRow.updated_at = "before" /\ ~memberRow.password_changed

\* the call is past its password step: at the email update or beyond it
PastPasswordStep ==
    \/ profile.pc \in {"updateEmail", "updateMember", "returned"}
    \/ RequestsOf("updateEmail") \cup RequestsOf("updateMember") # {}

\* C29: once the call is past its password step, it issues the auth email
\* update, with the new email, if and only if newEmail differs from oldEmail
\* and oldEmail does not contain '@temp.pwaburton.org'.  Whether or not it
\* did, the members row it has written has email = newEmail, email_verified
\* false when newEmail differs from oldEmail and the previous value
\* otherwise, and password_changed true when a new password was given and
\* the previous value otherwise.
C29_EmailUpdateAndRowWritten ==
    /\ PastPasswordStep =>
         ((profile.pc = "updateEmail" \/ RequestsOf("updateEmail") # {})
            <=> (profile.newEmail # profile.oldEmail
                   /\ ~includes(profile.oldEmail, TEMP_DOMAIN)))
    /\ \A i \in RequestsOf("updateEmail") : profile.calls[i].arg = profile.newEmail
    /\ Succeeded("updateMember") =>
         /\ memberRow.email = profile.newEmail
         /\ memberRow.email_verified =
              (IF profile.newEmail # profile.oldEmail THEN FALSE
               ELSE profile.currentMember.email_verified)
         /\ memberRow.password_changed =
              (IF profile.newPassword # "" THEN TRUE
               ELSE profile.currentMember.password_changed)

\* the member with the temporary address gave a new email: no auth email
\* update was issued, the account keeps the temporary address and the row has
\* the new email, unverified
C29_Witness ==
    /\ profile.pc = "returned"
    /\ profile.oldEmail = TEMP_EMAIL /\ profile.newEmail = HOME_EMAIL
    /\ RequestsOf("updateEmail") = {}
    /\ authUser.email = TEMP_EMAIL
    /\ memberRow.email = HOME_EMAIL /\ ~memberRow.email_verified
    /\ profile.currentMember.email_verified

\* the requests of the login attempt that were issued for step
LoginRequests(step) == {i \in DOMAIN login.calls : login.calls[i].step = step}

\* the order of one login attempt, as a property of every state
LoginOrder ==
    /\ login.isLoading <=> login.pc # "idle"
    /\ login.isLoading => login.clean = trim(toUpperCase(login.memberId))
    /\ \A i \in LoginRequests("memberLookup") :
           i = 1 /\ login.calls[i].arg = login.clean
    /\ (login.pc = "signIn" \/ LoginRequests("signIn") # {}) =>
           /\ LoginRequests("memberLookup") # {}
           /\ login.calls[1].ok
           /\ login.member = "member"
           /\ memberRow.member_number = login.clean
    /\ \A i \in LoginRequests("signIn") :
           /\ i = 2
           /\ login.calls[i].arg = toLowerCase(login.clean) \o TEMP_DOMAIN
    /\ login.location = "/admin/profile" =>
           /\ \E i \in LoginRequests("signIn") : login.calls[i].ok
           /\ login.toast = "Login successful"
    /\ (\E i \in DOMAIN login.calls : ~login.calls[i].ok) =>
           (login.location = "/login" /\ login.toast = "Login failed")
    /\ login.toast = "Login failed" => login.location = "/login"

\* C30: in handleLogin the password sign-in is attempted only after the
\* member lookup, issued for the upper-cased and trimmed member ID, returned
\* a member, and always with the email made of that ID in lower case and
\* '@temp.pwaburton.org'; the page navigates to /admin/profile only after a
\* sign-in without error; isLoading is true from the start of an attempt
\* until its end, and every attempt ends: isLoading becomes false again,
\* whether the attempt succeeded or failed.
C30_LoginAttempt == []LoginOrder /\ (login.isLoading ~> ~login.isLoading)

\* a member ID typed with a leading blank was signed in and the page has
\* navigated
C30_Witness ==
    /\ login.location = "/admin/profile" /\ ~login.isLoading
    /\ login.memberId = <<" ", "T", "1">>
    /\ \E i \in LoginRequests("signIn") : login.calls[i].arg = TEMP_EMAIL

====
